---- MODULE Spec2Model ----
(***************************************************************************)
(* Category resolution and continuous learning of z9wen/vodcms.            *)
(*                                                                         *)
(* The state is the three tables the engine works on (mapping_rules,       *)
(* unmapped_categories, fuzzy_match_rules), the configuration held by      *)
(* CategoryMappingService, and a clock.  Every action is one call of a     *)
(* service method or HTTP handler, translated statement by statement; the  *)
(* GORM calls are modelled by what they do on the tables:                  *)
(*   First(&x)            the row with the smallest primary key, after any *)
(*                        explicit Order clause                            *)
(*   Create(&x)           inserts with the next id; fails on the unique    *)
(*                        index idx_mapping_source_type                    *)
(*   Updates(struct)      writes the NON-ZERO fields of the struct only    *)
(*   Updates(map)         writes every key of the map                      *)
(*   autoCreateTime /     set to the clock on insert / on every update     *)
(*   autoUpdateTime                                                        *)
(* Strings that the code inspects (display names, fuzzy patterns, keys of  *)
(* the taxonomy) are sequences of one-character strings.                   *)
(* Columns no modelled statement reads (source_name, match_type, notes,    *)
(* keywords) are left out of the rows.                                     *)
(***************************************************************************)
EXTENDS Integers, Sequences, FiniteSets, TLC

VARIABLES
    rules,      \* table mapping_rules: set of rows
    unmapped,   \* table unmapped_categories: set of rows
    fuzzy,      \* table fuzzy_match_rules: set of rows
    config,     \* CategoryMappingService.config (NoConfig when s.config == nil)
    now,        \* the clock (time.Now())
    last,       \* the last call: its operation, arguments and return values
    calls       \* the AddMappingRule calls in flight, one per request goroutine

vars == <<rules, unmapped, fuzzy, config, now, last, calls>>

----------------------------------------------------------------------------
(* Bounds *)

\* every call that writes advances the clock by one; writes stop at MaxTime
MaxTime == 4

\* the clock at which the specifications of rule administration stop
MaxAdminTime == 3

\* longest item list of a batch request
MaxBatch == 2

\* the clock at which the specification of all rule writers stops
MaxRuleWrites == 2

----------------------------------------------------------------------------
(* Values *)

\* a nil *int
Nil == -1

\* the default classification
DefaultStandardID == 99

\* priority given to rules created by the engine
DefaultPriority == 100

\* priority of the built-in fuzzy rules
FuzzyPriority == 200

\* the (source, code) pairs requests are drawn from
Keys == {<<"xlzy", 17>>, <<"xlzy", 20>>, <<"bfzy", 17>>}

\* display names, as character sequences
NameTV == <<"t", "v">>
NameMisc == <<"m">>
NameAct == <<"x", "a", "c">>
NameKr == <<"k", "r">>
NameEmpty == <<>>

\* display names of the feeds the suggestion heuristic is asked about
NameMovie == <<"d">>
Name4kFilm == <<"4", "k", "d">>
NameUpperAct == <<"A", "C", "K", "R">>
NameUpperTV == <<"T", "V">>
NamePaddedKr == <<" ", "k", "r", " ">>
NameUpper4kFilm == <<"4", "K", "d">>
NameCnAnime == <<"c", "n", "a", "n">>
NameTvAct == <<"t", "v", "a", "c">>

Names == {NameTV, NameAct, NameKr, NameEmpty}

\* the categories the feeds carry: (source, code, display name)
Requests ==
    {<<"xlzy", 20, NameTV>>, <<"xlzy", 17, NameKr>>, <<"xlzy", 17, NameTV>>,
     <<"bfzy", 17, NameAct>>, <<"bfzy", 17, NameEmpty>>, <<"xlzy", 17, NameUpperAct>>}

\* targets administrators ask for: (standard id, sub id)
Targets == {<<2, 205>>, <<1, Nil>>}

\* priorities a rule request may carry (0: field absent)
Priorities == {0, 50}

----------------------------------------------------------------------------
(* Strings *)

\* strings.Contains
Contains(s, sub) ==
    \E i \in 0..(Len(s) - Len(sub)) : SubSeq(s, i + 1, i + Len(sub)) = sub

RECURSIVE SplitFrom(_, _, _)
SplitFrom(p, cur, i) ==
    IF i > Len(p) THEN <<cur>>
    ELSE IF p[i] = "|" THEN <<cur>> \o SplitFrom(p, <<>>, i + 1)
    ELSE SplitFrom(p, Append(cur, p[i]), i + 1)

\* strings.Split(p, "|")
Split(p) == SplitFrom(p, <<>>, 1)

Digit(d) == <<"0", "1", "2", "3", "4", "5", "6", "7", "8", "9">>[d + 1]

RECURSIVE Digits(_)
Digits(n) == IF n < 10 THEN <<Digit(n)>> ELSE Append(Digits(n \div 10), Digit(n % 10))

\* fmt.Sprintf("%d", n)
Itoa(n) == IF n < 0 THEN <<"-">> \o Digits(0 - n) ELSE Digits(n)

\* the letters strings.ToLower folds
UpperLetters ==
    <<"A", "B", "C", "D", "E", "F", "G", "H", "I", "J", "K", "L", "M",
      "N", "O", "P", "Q", "R", "S", "T", "U", "V", "W", "X", "Y", "Z">>

LowerLetters ==
    <<"a", "b", "c", "d", "e", "f", "g", "h", "i", "j", "k", "l", "m",
      "n", "o", "p", "q", "r", "s", "t", "u", "v", "w", "x", "y", "z">>

\* the lower-case letter of every upper-case letter
LowerOf ==
    [c \in {UpperLetters[i] : i \in 1..Len(UpperLetters)} |->
        LowerLetters[CHOOSE i \in 1..Len(UpperLetters) : UpperLetters[i] = c]]

ToLowerChar(c) == IF c \in DOMAIN LowerOf THEN LowerOf[c] ELSE c

\* strings.ToLower
ToLower(s) == IF s = <<>> THEN <<>> ELSE [i \in 1..Len(s) |-> ToLowerChar(s[i])]

IsSpace(c) == c \in {" ", "\t", "\n"}

\* strings.TrimSpace
TrimSpace(s) ==
    LET kept == {i \in 1..Len(s) : ~IsSpace(s[i])}
    IN  IF kept = {} THEN <<>>
        ELSE SubSeq(s, CHOOSE i \in kept : \A j \in kept : i <= j,
                       CHOOSE i \in kept : \A j \in kept : i >= j)

----------------------------------------------------------------------------
(* Configuration: category_mapping.json *)

NoConfig == [loaded |-> FALSE]

\* the taxonomy and the legacy mappings of the configuration file
CategoryMappingConfig ==
    [loaded |-> TRUE,
     standard_categories |->
        (Itoa(1) :> [name |-> "Movie", subcategories |-> (Itoa(101) :> "Action")]) @@
        (Itoa(2) :> [name |-> "TV",
                     subcategories |-> (Itoa(201) :> "Mainland") @@ (Itoa(205) :> "Korean")]) @@
        (Itoa(99) :> [name |-> "Other", subcategories |-> (Itoa(901) :> "Misc")]),
     source_mappings |->
        ("xlzy" :> <<[source_type_id |-> 20, source_name |-> NameTV,
                      standard_id |-> 2, standard_sub_id |-> 201]>>) @@
        ("bfzy" :> <<[source_type_id |-> 17, source_name |-> NameMisc,
                      standard_id |-> 99, standard_sub_id |-> 901]>>)]

\* a configuration file whose legacy entry of bfzy names a standard category
\* and a subcategory that the taxonomy of the same file does not have
CategoryMappingConfigStale ==
    [CategoryMappingConfig EXCEPT
        !.source_mappings =
            ("xlzy" :> <<[source_type_id |-> 20, source_name |-> NameTV,
                          standard_id |-> 2, standard_sub_id |-> 201]>>) @@
            ("bfzy" :> <<[source_type_id |-> 17, source_name |-> NameMisc,
                          standard_id |-> 7, standard_sub_id |-> 701]>>)]

\* the name the default classification carries
DefaultName == "Other"

\* the built-in fuzzy rules InitializeMappingRules creates (two of the ten,
\* with the same priority as in the source)
BuiltinFuzzyRules ==
    <<[pattern |-> <<"a", "c", "|", "w">>, standard_id |-> 1, standard_sub_id |-> 101],
      [pattern |-> <<"k", "r">>, standard_id |-> 2, standard_sub_id |-> 205]>>

----------------------------------------------------------------------------
(* Queries *)

NotFound == [found |-> FALSE]

\* db.First after the given Order clause: ORDER BY priority ASC, id LIMIT 1
FirstByPriority(rows) ==
    IF rows = {} THEN NotFound
    ELSE [found |-> TRUE,
          row |-> CHOOSE r \in rows : \A q \in rows :
                     \/ r.priority < q.priority
                     \/ (r.priority = q.priority /\ r.id <= q.id)]

\* db.First without Order: ORDER BY id LIMIT 1
FirstById(rows) ==
    IF rows = {} THEN NotFound
    ELSE [found |-> TRUE, row |-> CHOOSE r \in rows : \A q \in rows : r.id <= q.id]

\* the exact query with its source_key condition dropped
FindExactByCode(R, sourceKey, sourceTypeID) ==
    FirstByPriority({r \in R : r.source_type_id = sourceTypeID /\ r.is_active})

\* step 1 of MapCategoryEnhanced: the active exact rule of (source, code)
FindExact(R, sourceKey, sourceTypeID) ==
    FirstByPriority({r \in R : /\ r.source_key = sourceKey
                               /\ r.source_type_id = sourceTypeID
                               /\ r.is_active})

\* the lookup of AddMappingRule and of the handlers: any rule of (source, code)
FindRule(R, sourceKey, sourceTypeID) ==
    FirstById({r \in R : r.source_key = sourceKey /\ r.source_type_id = sourceTypeID})

\* a lookup by id that loads the first row of the table when no row has the id
FindByIdOrFirst(T, id) ==
    IF {r \in T : r.id = id} # {}
    THEN [found |-> TRUE, row |-> CHOOSE r \in T : r.id = id]
    ELSE IF T # {}
    THEN [found |-> TRUE, row |-> CHOOSE r \in T : \A q \in T : r.id <= q.id]
    ELSE [found |-> FALSE]

\* db.First(&unmapped, id) and db.First(&rule, id)
FindById(T, id) == FirstById({r \in T : r.id = id})

\* the lookup of recordUnmappedCategory
FindUnmapped(U, sourceKey, sourceTypeID) ==
    FirstById({u \in U : u.source_key = sourceKey /\ u.source_type_id = sourceTypeID})

\* the next value of an auto-increment primary key
NextId(T) == Cardinality(T) + 1

----------------------------------------------------------------------------
(* Taxonomy and legacy configuration *)

\* the names of (standardID, standardSubID) in the taxonomy; def is the name
\* kept when the standard id is unknown
NamesOf(cfg, standardID, standardSubID, def) ==
    IF Itoa(standardID) \notin DOMAIN cfg.standard_categories THEN <<def, "">>
    ELSE LET stdCat == cfg.standard_categories[Itoa(standardID)]
         IN  <<stdCat.name,
               IF /\ standardSubID # Nil
                  /\ Itoa(standardSubID) \in DOMAIN stdCat.subcategories
               THEN stdCat.subcategories[Itoa(standardSubID)]
               ELSE "">>

getStandardCategoryNames(cfg, standardID, standardSubID) ==
    IF ~cfg.loaded THEN <<"", "">> ELSE NamesOf(cfg, standardID, standardSubID, "")

Classification(standardID, standardSubID, names) ==
    [standard_id |-> standardID, standard_sub_id |-> standardSubID,
     standard_name |-> names[1], standard_sub_name |-> names[2]]

DefaultClassification == Classification(DefaultStandardID, Nil, <<DefaultName, "">>)

\* the first of the indices a range loop stops at, 0 if it stops at none
FirstIndex(indices) ==
    IF indices = {} THEN 0 ELSE CHOOSE i \in indices : \A j \in indices : i <= j

\* MapCategory: the legacy lookup, by code and then by name
MapCategory(cfg, sourceKey, sourceTypeID, sourceTypeName) ==
    IF ~cfg.loaded \/ sourceKey \notin DOMAIN cfg.source_mappings
    THEN DefaultClassification
    ELSE LET mappings == cfg.source_mappings[sourceKey]
             i == FirstIndex({k \in 1..Len(mappings) :
                                mappings[k].source_type_id = sourceTypeID})
             j == FirstIndex({k \in 1..Len(mappings) :
                                mappings[k].source_name = sourceTypeName})
             Of(m) == Classification(m.standard_id, m.standard_sub_id,
                         NamesOf(cfg, m.standard_id, m.standard_sub_id, DefaultName))
         IN  IF i # 0 THEN Of(mappings[i])
             ELSE IF j # 0 THEN Of(mappings[j])
             ELSE DefaultClassification

----------------------------------------------------------------------------
(* Fuzzy rules *)

\* the zero value of models.FuzzyMatchRule
ZeroFuzzyRule ==
    [id |-> 0, pattern |-> <<>>, standard_id |-> 0, standard_sub_id |-> Nil,
     priority |-> 0, is_active |-> FALSE]

\* db.Where("is_active = ?", true).Order("priority ASC").Find(&fuzzyRule) into
\* ONE struct: the first row of the result, or the untouched zero value when
\* there is no row.  SQL leaves the order of rows of equal priority open.
FuzzyFound(F) ==
    LET act == {f \in F : f.is_active}
    IN  IF act = {} THEN {ZeroFuzzyRule}
        ELSE {f \in act : \A g \in act : f.priority <= g.priority}

\* the keyword loop of step 3
FuzzyHit(fuzzyRule, sourceTypeName) ==
    LET keywords == Split(fuzzyRule.pattern)
    IN  \E i \in 1..Len(keywords) : Contains(sourceTypeName, keywords[i])

----------------------------------------------------------------------------
(* Suggestions: the heuristic of the discovery handler *)

MappingSuggestion(standardID, standardSubID, standardName, standardSubName, confidence) ==
    [standard_id |-> standardID, standard_sub_id |-> standardSubID,
     standard_name |-> standardName, standard_sub_name |-> standardSubName,
     confidence |-> confidence]

\* the table of names that match exactly (four of its entries; "4kd" stands
\* for the one key of the table that holds a letter, "cnan" for a key that
\* holds keywords of two entries of the keyword table)
highConfidenceRules ==
    (NameKr :> MappingSuggestion(2, 205, "TV", "Korean", "high")) @@
    (NameMovie :> MappingSuggestion(1, Nil, "Movie", "", "high")) @@
    (Name4kFilm :> MappingSuggestion(1, 113, "Movie", "4K", "high")) @@
    (NameCnAnime :> MappingSuggestion(4, 401, "Anime", "Mainland", "high"))

\* the keyword table, in the order of the source (five of its entries)
mediumConfidenceRules ==
    <<[keywords |-> <<<<"a", "c">>, <<"w">>>>,
       suggestion |-> MappingSuggestion(1, 101, "Movie", "Action", "medium")],
      [keywords |-> <<<<"m", "o", "v">>, <<"f">>>>,
       suggestion |-> MappingSuggestion(1, Nil, "Movie", "", "medium")],
      [keywords |-> <<<<"c", "n">>>>,
       suggestion |-> MappingSuggestion(2, 201, "TV", "Mainland", "medium")],
      [keywords |-> <<<<"t", "v">>>>,
       suggestion |-> MappingSuggestion(2, Nil, "TV", "", "medium")],
      [keywords |-> <<<<"a", "n">>>>,
       suggestion |-> MappingSuggestion(4, Nil, "Anime", "", "medium")]>>

\* a heuristic that consults the rule store: once rules were created after
\* start-up it no longer reads its tables
suggestMappingByRules(typeName) ==
    LET name == TrimSpace(typeName)
        lowerName == ToLower(name)
        i == FirstIndex({k \in 1..Len(mediumConfidenceRules) :
                \E j \in 1..Len(mediumConfidenceRules[k].keywords) :
                    Contains(lowerName, mediumConfidenceRules[k].keywords[j])})
    IN  IF \E r \in rules : r.created_at > 0
        THEN MappingSuggestion(DefaultStandardID, Nil, DefaultName, "", "low")
        ELSE IF name \in DOMAIN highConfidenceRules THEN highConfidenceRules[name]
        ELSE IF i # 0 THEN mediumConfidenceRules[i].suggestion
        ELSE MappingSuggestion(DefaultStandardID, Nil, DefaultName, "", "low")

\* a heuristic that scans the keyword table before it looks the name up
suggestMappingKeywordsFirst(typeName) ==
    LET name == TrimSpace(typeName)
        lowerName == ToLower(name)
        i == FirstIndex({k \in 1..Len(mediumConfidenceRules) :
                \E j \in 1..Len(mediumConfidenceRules[k].keywords) :
                    Contains(lowerName, mediumConfidenceRules[k].keywords[j])})
    IN  IF i # 0 THEN mediumConfidenceRules[i].suggestion
        ELSE IF name \in DOMAIN highConfidenceRules THEN highConfidenceRules[name]
        ELSE MappingSuggestion(DefaultStandardID, Nil, DefaultName, "", "low")

\* suggestMapping: exact lookup of the trimmed name, then the first keyword
\* entry one of whose keywords the lower-cased name contains, then the default
suggestMapping(typeName) ==
    LET name == TrimSpace(typeName)
        lowerName == ToLower(name)
        i == FirstIndex({k \in 1..Len(mediumConfidenceRules) :
                \E j \in 1..Len(mediumConfidenceRules[k].keywords) :
                    Contains(lowerName, mediumConfidenceRules[k].keywords[j])})
    IN  IF name \in DOMAIN highConfidenceRules THEN highConfidenceRules[name]
        ELSE IF i # 0 THEN mediumConfidenceRules[i].suggestion
        ELSE MappingSuggestion(DefaultStandardID, Nil, DefaultName, "", "low")

\* the threshold switch with a medium threshold that admits medium only
shouldCreateSameLevel(threshold, confidence) ==
    CASE threshold = "high" -> confidence = "high"
      [] threshold = "medium" -> confidence = "medium"
      [] threshold = "low" -> TRUE
      [] OTHER -> FALSE

\* the switch on the confidence threshold in AutoApplySuggestedMappings
shouldCreate(threshold, confidence) ==
    CASE threshold = "high" -> confidence = "high"
      [] threshold = "medium" -> confidence \in {"high", "medium"}
      [] threshold = "low" -> TRUE
      [] OTHER -> FALSE

----------------------------------------------------------------------------

(* Discovery records *)

\* recordUnmappedCategory returning early on a record that is not pending
recordUnmappedCategoryPending(U, sourceKey, sourceTypeID, suggestedID, suggestedSubID, t) ==
    LET ex == FindUnmapped(U, sourceKey, sourceTypeID)
    IN  IF ~ex.found
        THEN U \cup {[id |-> NextId(U), source_key |-> sourceKey,
                      source_type_id |-> sourceTypeID,
                      first_seen_at |-> t, last_seen_at |-> t,
                      video_count |-> 1, status |-> "pending",
                      suggested_id |-> suggestedID, suggested_sub_id |-> suggestedSubID,
                      mapped_id |-> Nil, mapped_sub_id |-> Nil]}
        ELSE IF ex.row.status # "pending" THEN U
        ELSE (U \ {ex.row}) \cup
             {[ex.row EXCEPT !.last_seen_at = t,
                             !.video_count = @ + 1,
                             !.suggested_id = IF suggestedID # Nil THEN suggestedID ELSE @,
                             !.suggested_sub_id = IF suggestedID # Nil THEN suggestedSubID ELSE @]}

\* recordUnmappedCategory saving the whole row again on every call
recordUnmappedCategorySaved(U, sourceKey, sourceTypeID, suggestedID, suggestedSubID, t) ==
    LET ex == FindUnmapped(U, sourceKey, sourceTypeID)
    IN  (U \ (IF ex.found THEN {ex.row} ELSE {})) \cup
        {[id |-> IF ex.found THEN ex.row.id ELSE NextId(U), source_key |-> sourceKey,
          source_type_id |-> sourceTypeID,
          first_seen_at |-> t, last_seen_at |-> t,
          video_count |-> 1, status |-> "pending",
          suggested_id |-> suggestedID, suggested_sub_id |-> suggestedSubID,
          mapped_id |-> Nil, mapped_sub_id |-> Nil]}

\* recordUnmappedCategory writing the suggested sub id only when one is given
recordUnmappedCategoryGivenSub(U, sourceKey, sourceTypeID, suggestedID, suggestedSubID, t) ==
    LET ex == FindUnmapped(U, sourceKey, sourceTypeID)
    IN  IF ~ex.found
        THEN U \cup {[id |-> NextId(U), source_key |-> sourceKey,
                      source_type_id |-> sourceTypeID,
                      first_seen_at |-> t, last_seen_at |-> t,
                      video_count |-> 1, status |-> "pending",
                      suggested_id |-> suggestedID, suggested_sub_id |-> suggestedSubID,
                      mapped_id |-> Nil, mapped_sub_id |-> Nil]}
        ELSE (U \ {ex.row}) \cup
             {[ex.row EXCEPT !.last_seen_at = t,
                             !.video_count = @ + 1,
                             !.suggested_id = IF suggestedID # Nil THEN suggestedID ELSE @,
                             !.suggested_sub_id =
                                 IF suggestedSubID # Nil THEN suggestedSubID ELSE @]}

\* recordUnmappedCategory
recordUnmappedCategory(U, sourceKey, sourceTypeID, suggestedID, suggestedSubID, t) ==
    LET ex == FindUnmapped(U, sourceKey, sourceTypeID)
    IN  IF ~ex.found
        THEN U \cup {[id |-> NextId(U), source_key |-> sourceKey,
                      source_type_id |-> sourceTypeID,
                      first_seen_at |-> t, last_seen_at |-> t,
                      video_count |-> 1, status |-> "pending",
                      suggested_id |-> suggestedID, suggested_sub_id |-> suggestedSubID,
                      mapped_id |-> Nil, mapped_sub_id |-> Nil]}
        ELSE (U \ {ex.row}) \cup
             {[ex.row EXCEPT !.last_seen_at = t,
                             !.video_count = @ + 1,
                             !.suggested_id = IF suggestedID # Nil THEN suggestedID ELSE @,
                             !.suggested_sub_id = IF suggestedID # Nil THEN suggestedSubID ELSE @]}

----------------------------------------------------------------------------
(* Resolve *)

\* MapCategoryEnhanced, given the row the fuzzy query loaded: the returned
\* classification, the step that returned it, and the discovery call made
MapCategoryEnhanced(R, cfg, sourceKey, sourceTypeID, sourceTypeName, fuzzyRule) ==
    LET ex == FindExact(R, sourceKey, sourceTypeID)
        lg == MapCategory(cfg, sourceKey, sourceTypeID, sourceTypeName)
        With(c, step, obs, sid, ssub) ==
            [res |-> c, step |-> step, observe |-> obs,
             suggested_id |-> sid, suggested_sub_id |-> ssub]
    IN  IF ex.found
        THEN With(Classification(ex.row.standard_id, ex.row.standard_sub_id,
                    getStandardCategoryNames(cfg, ex.row.standard_id, ex.row.standard_sub_id)),
                  "exact-rule", FALSE, Nil, Nil)
        ELSE IF lg.standard_id # DefaultStandardID
        THEN With(lg, "legacy-config", FALSE, Nil, Nil)
        ELSE IF sourceTypeName # <<>> /\ FuzzyHit(fuzzyRule, sourceTypeName)
        THEN With(Classification(fuzzyRule.standard_id, fuzzyRule.standard_sub_id,
                    getStandardCategoryNames(cfg, fuzzyRule.standard_id,
                                             fuzzyRule.standard_sub_id)),
                  "fuzzy-rule", TRUE, fuzzyRule.standard_id, fuzzyRule.standard_sub_id)
        ELSE With([lg EXCEPT !.standard_id = DefaultStandardID,
                             !.standard_name = DefaultName],
                  "default", TRUE, Nil, Nil)

----------------------------------------------------------------------------
(* The record of the last call *)

NoRes == [standard_id |-> Nil, standard_sub_id |-> Nil,
          standard_name |-> "", standard_sub_name |-> ""]

Call(op) ==
    [op |-> op, source_key |-> "", source_type_id |-> 0,
     id |-> 0, standard_id |-> Nil, standard_sub_id |-> Nil,
     ok |-> TRUE, res |-> NoRes, step |-> "none",
     items |-> <<>>, success_count |-> 0, fail_count |-> 0,
     classes |-> <<>>, confidence_threshold |-> "", created_count |-> 0,
     skipped_count |-> 0, low_confidence_count |-> 0, affected |-> 0]

\* the requests in flight: each holds what its lookup returned until it writes
Procs == {1, 2}

IdleCall == [pc |-> "idle", rule |-> NotFound, existing |-> NotFound, ok |-> TRUE]

----------------------------------------------------------------------------
(* Construction: NewCategoryMappingService on a fresh database *)

NewRule(id, sourceKey, sourceTypeID, standardID, standardSubID, priority, t) ==
    [id |-> id, source_key |-> sourceKey, source_type_id |-> sourceTypeID,
     standard_id |-> standardID, standard_sub_id |-> standardSubID,
     priority |-> priority, is_active |-> TRUE, created_at |-> t, updated_at |-> t]

\* the legacy mappings of the configuration, source by source in the given order
RECURSIVE LegacyRows(_, _)
LegacyRows(cfg, order) ==
    IF order = <<>> THEN <<>>
    ELSE [i \in 1..Len(cfg.source_mappings[Head(order)]) |->
            [source_key |-> Head(order), m |-> cfg.source_mappings[Head(order)][i]]]
         \o LegacyRows(cfg, Tail(order))

\* InitializeMappingRules on an empty mapping_rules table
ImportedRules(cfg, order) ==
    LET rows == LegacyRows(cfg, order)
    IN  {NewRule(i, rows[i].source_key, rows[i].m.source_type_id, rows[i].m.standard_id,
                 rows[i].m.standard_sub_id, DefaultPriority, 0) : i \in 1..Len(rows)}

ImportedFuzzyRules ==
    {[id |-> i, pattern |-> BuiltinFuzzyRules[i].pattern,
      standard_id |-> BuiltinFuzzyRules[i].standard_id,
      standard_sub_id |-> BuiltinFuzzyRules[i].standard_sub_id,
      priority |-> FuzzyPriority, is_active |-> TRUE] : i \in 1..Len(BuiltinFuzzyRules)}

\* the orders in which Go may range over the source_mappings map
SourceOrders == {<<"xlzy", "bfzy">>, <<"bfzy", "xlzy">>}

\* the service right after NewCategoryMappingService on an empty database, with
\* a configuration file that loads
Init ==
    /\ now = 0
    /\ unmapped = {}
    /\ calls = [p \in Procs |-> IdleCall]
    /\ last = Call("init")
    /\ config = CategoryMappingConfig
    /\ \E order \in SourceOrders : rules = ImportedRules(CategoryMappingConfig, order)
    /\ fuzzy = ImportedFuzzyRules

----------------------------------------------------------------------------
(* Actions *)

\* MapCategoryEnhanced(sourceKey, sourceTypeID, sourceTypeName)
Resolve(sourceKey, sourceTypeID, sourceTypeName) ==
    /\ \E fuzzyRule \in FuzzyFound(fuzzy) :
         LET out == MapCategoryEnhanced(rules, config, sourceKey, sourceTypeID,
                                        sourceTypeName, fuzzyRule)
         IN  /\ IF out.observe
                THEN /\ now < MaxTime
                     /\ now' = now + 1
                     /\ unmapped' = recordUnmappedCategory(unmapped, sourceKey,
                                        sourceTypeID, out.suggested_id,
                                        out.suggested_sub_id, now + 1)
                ELSE UNCHANGED <<now, unmapped>>
             /\ last' = [Call("Resolve") EXCEPT !.source_key = sourceKey,
                                                !.source_type_id = sourceTypeID,
                                                !.res = out.res, !.step = out.step]
    /\ UNCHANGED <<rules, fuzzy, config, calls>>

\* MapCategoryEnhanced when the query of step 1 returns a storage error: err is
\* not nil, the rule is not read, and the function goes on to step 2 as it does
\* when the key has no active rule; its results carry no error value
ResolveLookupError(sourceKey, sourceTypeID, sourceTypeName) ==
    /\ \E fuzzyRule \in FuzzyFound(fuzzy) :
         LET out == MapCategoryEnhanced({}, config, sourceKey, sourceTypeID,
                                        sourceTypeName, fuzzyRule)
         IN  /\ IF out.observe
                THEN /\ now < MaxTime
                     /\ now' = now + 1
                     /\ unmapped' = recordUnmappedCategory(unmapped, sourceKey,
                                        sourceTypeID, out.suggested_id,
                                        out.suggested_sub_id, now + 1)
                ELSE UNCHANGED <<now, unmapped>>
             /\ last' = [Call("ResolveLookupError") EXCEPT
                            !.source_key = sourceKey,
                            !.source_type_id = sourceTypeID,
                            !.res = out.res, !.step = out.step]
    /\ UNCHANGED <<rules, fuzzy, config, calls>>

\* Updates writing created_at along with the other columns
UpdatesRuleCreated(R, id, rule, t) ==
    {IF r.id # id THEN r
     ELSE [r EXCEPT
             !.standard_id = IF rule.standard_id # 0 THEN rule.standard_id ELSE @,
             !.standard_sub_id =
                 IF rule.standard_sub_id # Nil THEN rule.standard_sub_id ELSE @,
             !.priority = IF rule.priority # 0 THEN rule.priority ELSE @,
             !.is_active = IF rule.is_active THEN TRUE ELSE @,
             !.created_at = t,
             !.updated_at = t] : r \in R}

\* db.Model(&existing).Updates(rule): the non-zero fields of rule are written to
\* the row of existing's id, and updated_at with them
UpdatesRule(R, id, rule, t) ==
    {IF r.id # id THEN r
     ELSE [r EXCEPT
             !.standard_id = IF rule.standard_id # 0 THEN rule.standard_id ELSE @,
             !.standard_sub_id =
                 IF rule.standard_sub_id # Nil THEN rule.standard_sub_id ELSE @,
             !.priority = IF rule.priority # 0 THEN rule.priority ELSE @,
             !.is_active = IF rule.is_active THEN TRUE ELSE @,
             !.updated_at = t] : r \in R}

\* db.Create on a table without the unique index on (source_key, source_type_id)
CreateRuleUnchecked(R, rule, t) ==
    [ok |-> TRUE,
     rules |-> R \cup {NewRule(NextId(R), rule.source_key, rule.source_type_id,
                               rule.standard_id, rule.standard_sub_id,
                               rule.priority, t)}]

\* the result of db.Create(&rule): the unique index on (source_key,
\* source_type_id) rejects a second rule of the key
CreateRule(R, rule, t) ==
    IF FindRule(R, rule.source_key, rule.source_type_id).found
    THEN [ok |-> FALSE, rules |-> R]
    ELSE [ok |-> TRUE,
          rules |-> R \cup {NewRule(NextId(R), rule.source_key, rule.source_type_id,
                                    rule.standard_id, rule.standard_sub_id,
                                    rule.priority, t)}]

\* the write of AddMappingRule, given what its lookup returned
SaveRule(R, existing, rule, t) ==
    IF ~existing.found
    THEN CreateRule(R, rule, t)
    ELSE [ok |-> TRUE, rules |-> UpdatesRule(R, existing.row.id, rule, t)]

\* AddMappingRule of the service, and the same statements in the handlers
\* AddMappingRule and QuickMapCategory, run without interruption: look the key
\* up, then Create or Updates(rule)
AddMappingRule(R, rule, t) ==
    SaveRule(R, FindRule(R, rule.source_key, rule.source_type_id), rule, t).rules

\* the models.MappingRule literal every caller builds
RuleValue(sourceKey, sourceTypeID, standardID, standardSubID, priority) ==
    [source_key |-> sourceKey, source_type_id |-> sourceTypeID,
     standard_id |-> standardID, standard_sub_id |-> standardSubID,
     priority |-> priority, is_active |-> TRUE]

\* db.Model(&unmapped).Updates(map[status, mapped_id, mapped_sub_id])
MarkMapped(U, row, standardID, standardSubID, t) ==
    (U \ {row}) \cup {[row EXCEPT !.status = "mapped",
                                  !.mapped_id = standardID,
                                  !.mapped_sub_id = standardSubID,
                                  !.last_seen_at = t]}

\* where a storage failure strikes a call that writes twice
FailModes == {"none", "rule", "record"}

\* CategoryMappingService.ApplyUnmappedCategoryMapping(unmappedID, standardID, standardSubID)
ApplyUnmappedCategoryMapping(unmappedID, standardID, standardSubID, fail) ==
    LET u == FindById(unmapped, unmappedID)
        call == [Call("ApplyUnmappedCategoryMapping") EXCEPT
                    !.id = unmappedID, !.standard_id = standardID,
                    !.standard_sub_id = standardSubID]
    IN  /\ IF ~u.found \/ fail = "rule"
           THEN /\ UNCHANGED <<rules, unmapped, now>>
                /\ last' = [Call("ApplyUnmappedCategoryMapping") EXCEPT !.ok = FALSE]
           ELSE /\ now < MaxTime
                /\ now' = now + 1
                /\ rules' = AddMappingRule(rules,
                               RuleValue(u.row.source_key, u.row.source_type_id,
                                         standardID, standardSubID, DefaultPriority),
                               now + 1)
                /\ IF fail = "record"
                   THEN /\ UNCHANGED unmapped
                        /\ last' = [call EXCEPT !.ok = FALSE,
                                                !.source_key = u.row.source_key,
                                                !.source_type_id = u.row.source_type_id]
                   ELSE /\ unmapped' = MarkMapped(unmapped, u.row, standardID,
                                                  standardSubID, now + 1)
                        /\ last' = [call EXCEPT !.source_key = u.row.source_key,
                                                !.source_type_id = u.row.source_type_id]
        /\ UNCHANGED <<fuzzy, config, calls>>

\* MappingAdminHandler.ApplyCategoryMapping: POST /category-mapping/apply
ApplyCategoryMapping(unmappedID, standardID, standardSubID, fail) ==
    LET u == FindById(unmapped, unmappedID)
        call == [Call("ApplyCategoryMapping") EXCEPT
                    !.id = unmappedID, !.standard_id = standardID,
                    !.standard_sub_id = standardSubID]
        created == CreateRule(rules,
                      RuleValue(u.row.source_key, u.row.source_type_id,
                                standardID, standardSubID, DefaultPriority),
                      now + 1)
    IN  /\ IF ~u.found \/ fail = "rule" \/ ~created.ok
           THEN /\ UNCHANGED <<rules, unmapped, now>>
                /\ last' = [Call("ApplyCategoryMapping") EXCEPT !.ok = FALSE]
           ELSE /\ now < MaxTime
                /\ now' = now + 1
                /\ rules' = created.rules
                /\ IF fail = "record"
                   THEN /\ UNCHANGED unmapped
                        /\ last' = [call EXCEPT !.ok = FALSE,
                                                !.source_key = u.row.source_key,
                                                !.source_type_id = u.row.source_type_id]
                   ELSE /\ unmapped' = MarkMapped(unmapped, u.row, standardID,
                                                  standardSubID, now + 1)
                        /\ last' = [call EXCEPT !.source_key = u.row.source_key,
                                                !.source_type_id = u.row.source_type_id]
        /\ UNCHANGED <<fuzzy, config, calls>>

\* MappingAdminHandler.AddMappingRule: POST /mapping-rules
AddMappingRuleHandler(sourceKey, sourceTypeID, standardID, standardSubID, priority) ==
    /\ now < MaxTime
    /\ now' = now + 1
    /\ rules' = AddMappingRule(rules,
                   RuleValue(sourceKey, sourceTypeID, standardID, standardSubID,
                             IF priority = 0 THEN DefaultPriority ELSE priority),
                   now + 1)
    /\ last' = [Call("AddMappingRule") EXCEPT
                   !.source_key = sourceKey, !.source_type_id = sourceTypeID,
                   !.standard_id = standardID, !.standard_sub_id = standardSubID]
    /\ UNCHANGED <<unmapped, fuzzy, config, calls>>

\* SourceDiscoveryHandler.QuickMapCategory: POST /source/quick-map
QuickMapCategory(sourceKey, sourceTypeID, standardID, standardSubID) ==
    /\ now < MaxTime
    /\ now' = now + 1
    /\ rules' = AddMappingRule(rules,
                   RuleValue(sourceKey, sourceTypeID, standardID, standardSubID,
                             DefaultPriority),
                   now + 1)
    /\ last' = [Call("QuickMapCategory") EXCEPT
                   !.source_key = sourceKey, !.source_type_id = sourceTypeID,
                   !.standard_id = standardID, !.standard_sub_id = standardSubID]
    /\ UNCHANGED <<unmapped, fuzzy, config, calls>>

\* MappingAdminHandler.DeleteMappingRule: DELETE /mapping-rules/:id
DeleteMappingRule(ruleID) ==
    LET r == FindById(rules, ruleID)
        call == [Call("DeleteMappingRule") EXCEPT !.id = ruleID]
    IN  /\ IF ~r.found
           THEN /\ UNCHANGED <<rules, now>>
                /\ last' = [Call("DeleteMappingRule") EXCEPT !.ok = FALSE]
           ELSE /\ now < MaxTime
                /\ now' = now + 1
                /\ rules' = (rules \ {r.row}) \cup
                            {[r.row EXCEPT !.is_active = FALSE, !.updated_at = now + 1]}
                /\ last' = [call EXCEPT !.source_key = r.row.source_key,
                                        !.source_type_id = r.row.source_type_id]
        /\ UNCHANGED <<unmapped, fuzzy, config, calls>>

\* the loop of BatchApplyUnmappedCategories over the items left: First on the
\* record, Create of the rule, Updates of the record, and the two counters
RECURSIVE ApplyItems(_, _, _, _)
ApplyItems(R, U, items, t) ==
    IF items = <<>>
    THEN [rules |-> R, unmapped |-> U, success_count |-> 0, fail_count |-> 0]
    ELSE LET mapping == Head(items)
             u == FindById(U, mapping.unmapped_id)
             created == CreateRule(R,
                           RuleValue(u.row.source_key, u.row.source_type_id,
                                     mapping.standard_id, mapping.standard_sub_id,
                                     DefaultPriority),
                           t)
         IN  IF ~u.found \/ ~created.ok
             THEN [ApplyItems(R, U, Tail(items), t) EXCEPT !.fail_count = @ + 1]
             ELSE [ApplyItems(created.rules,
                              MarkMapped(U, u.row, mapping.standard_id,
                                         mapping.standard_sub_id, t),
                              Tail(items), t) EXCEPT !.success_count = @ + 1]

\* MappingAdminHandler.BatchApplyUnmappedCategories: POST /category-mapping/batch-apply
BatchApplyUnmappedCategories(items) ==
    LET out == ApplyItems(rules, unmapped, items, now + 1)
    IN  /\ IF out.success_count = 0
           THEN UNCHANGED <<rules, unmapped, now>>
           ELSE /\ now < MaxTime
                /\ now' = now + 1
                /\ rules' = out.rules
                /\ unmapped' = out.unmapped
        /\ last' = [Call("BatchApplyUnmappedCategories") EXCEPT
                       !.items = items,
                       !.success_count = out.success_count,
                       !.fail_count = out.fail_count]
        /\ UNCHANGED <<fuzzy, config, calls>>

\* the loop of AutoApplySuggestedMappings over the classes left: First on the
\* rule of the code, suggestMapping, the threshold, Create, and the counters
RECURSIVE ApplyClasses(_, _, _, _, _)
ApplyClasses(R, sourceKey, classes, threshold, t) ==
    IF classes = <<>>
    THEN [rules |-> R, created_count |-> 0, skipped_count |-> 0,
          low_confidence_count |-> 0]
    ELSE LET class == Head(classes)
             existing == FindRule(R, sourceKey, class.type_id)
             suggestion == suggestMapping(class.type_name)
             created == CreateRule(R,
                           RuleValue(sourceKey, class.type_id, suggestion.standard_id,
                                     suggestion.standard_sub_id, DefaultPriority),
                           t)
         IN  IF existing.found
             THEN [ApplyClasses(R, sourceKey, Tail(classes), threshold, t)
                      EXCEPT !.skipped_count = @ + 1]
             ELSE IF ~shouldCreate(threshold, suggestion.confidence)
             THEN [ApplyClasses(R, sourceKey, Tail(classes), threshold, t)
                      EXCEPT !.low_confidence_count = @ + 1]
             ELSE IF ~created.ok
             THEN ApplyClasses(R, sourceKey, Tail(classes), threshold, t)
             ELSE [ApplyClasses(created.rules, sourceKey, Tail(classes), threshold, t)
                      EXCEPT !.created_count = @ + 1]

\* SourceDiscoveryHandler.AutoApplySuggestedMappings: POST /source/auto-map, with
\* the class list the feed answered
AutoApplySuggestedMappings(sourceKey, classes, confidenceThreshold) ==
    LET threshold == IF confidenceThreshold = "" THEN "medium" ELSE confidenceThreshold
        out == ApplyClasses(rules, sourceKey, classes, threshold, now + 1)
    IN  /\ IF out.created_count = 0
           THEN UNCHANGED <<rules, now>>
           ELSE /\ now < MaxTime
                /\ now' = now + 1
                /\ rules' = out.rules
        /\ last' = [Call("AutoApplySuggestedMappings") EXCEPT
                       !.source_key = sourceKey,
                       !.classes = classes,
                       !.confidence_threshold = threshold,
                       !.created_count = out.created_count,
                       !.skipped_count = out.skipped_count,
                       !.low_confidence_count = out.low_confidence_count]
        /\ UNCHANGED <<unmapped, fuzzy, config, calls>>

\* the batch update without its WHERE clause: every row is written
UpdatesRulesEvery(R, ids, isActive, priority, t) ==
    {[r EXCEPT !.is_active = IF isActive # <<>> THEN isActive[1] ELSE @,
               !.priority = IF priority # <<>> THEN priority[1] ELSE @,
               !.updated_at = t] : r \in R}

\* db.Model(&models.MappingRule{}).Where("id IN ?", ids).Updates(map): every key
\* of the map is written to the rows named, and updated_at with them; a nil
\* pointer of the request (the empty sequence) puts no key into the map
UpdatesRules(R, ids, isActive, priority, t) ==
    {IF r.id \notin ids THEN r
     ELSE [r EXCEPT !.is_active = IF isActive # <<>> THEN isActive[1] ELSE @,
                    !.priority = IF priority # <<>> THEN priority[1] ELSE @,
                    !.updated_at = t] : r \in R}

\* MappingAdminHandler.BatchUpdateMappingRules: POST /mapping-rules/batch-update
BatchUpdateMappingRules(ruleIDs, isActive, priority) ==
    LET affected == Cardinality({r \in rules : r.id \in ruleIDs})
    IN  /\ IF ruleIDs = {} \/ (isActive = <<>> /\ priority = <<>>)
           THEN /\ UNCHANGED <<rules, now>>
                /\ last' = [Call("BatchUpdateMappingRules") EXCEPT !.ok = FALSE]
           ELSE /\ IF affected = 0
                   THEN UNCHANGED <<rules, now>>
                   ELSE /\ now < MaxTime
                        /\ now' = now + 1
                        /\ rules' = UpdatesRules(rules, ruleIDs, isActive, priority, now + 1)
                /\ last' = [Call("BatchUpdateMappingRules") EXCEPT !.affected = affected]
        /\ UNCHANGED <<unmapped, fuzzy, config, calls>>

\* MappingAdminHandler.BatchDeleteMappingRules: POST /mapping-rules/batch-delete
BatchDeleteMappingRules(ruleIDs) ==
    LET affected == Cardinality({r \in rules : r.id \in ruleIDs})
    IN  /\ IF ruleIDs = {}
           THEN /\ UNCHANGED <<rules, now>>
                /\ last' = [Call("BatchDeleteMappingRules") EXCEPT !.ok = FALSE]
           ELSE /\ IF affected = 0
                   THEN UNCHANGED <<rules, now>>
                   ELSE /\ now < MaxTime
                        /\ now' = now + 1
                        /\ rules' = UpdatesRules(rules, ruleIDs, <<FALSE>>, <<>>, now + 1)
                /\ last' = [Call("BatchDeleteMappingRules") EXCEPT !.affected = affected]
        /\ UNCHANGED <<unmapped, fuzzy, config, calls>>

\* the loop of BatchQuickMap over the mappings left: the lookup of the key, then
\* Create or Updates(&rule), and the two counters
RECURSIVE MapItems(_, _, _, _)
MapItems(R, sourceKey, mappings, t) ==
    IF mappings = <<>>
    THEN [rules |-> R, success_count |-> 0, fail_count |-> 0]
    ELSE LET mapping == Head(mappings)
             rule == RuleValue(sourceKey, mapping.source_type_id, mapping.standard_id,
                               mapping.standard_sub_id, DefaultPriority)
             saved == SaveRule(R, FindRule(R, sourceKey, mapping.source_type_id), rule, t)
         IN  IF ~saved.ok
             THEN [MapItems(R, sourceKey, Tail(mappings), t) EXCEPT !.fail_count = @ + 1]
             ELSE [MapItems(saved.rules, sourceKey, Tail(mappings), t)
                      EXCEPT !.success_count = @ + 1]

\* SourceDiscoveryHandler.BatchQuickMap: POST /source/batch-map
BatchQuickMap(sourceKey, mappings) ==
    LET out == MapItems(rules, sourceKey, mappings, now + 1)
    IN  /\ IF out.success_count = 0
           THEN UNCHANGED <<rules, now>>
           ELSE /\ now < MaxTime
                /\ now' = now + 1
                /\ rules' = out.rules
        /\ last' = [Call("BatchQuickMap") EXCEPT
                       !.source_key = sourceKey,
                       !.items = mappings,
                       !.success_count = out.success_count,
                       !.fail_count = out.fail_count]
        /\ UNCHANGED <<unmapped, fuzzy, config, calls>>

\* the CategoryMapResult LoadCategoryMappings builds for one legacy entry.  The
\* loader reads the sub id under the JSON key standard_sub_category_id; the
\* entries of the file carry it as standard_sub_id, the key CategoryMapping
\* reads, so the loader's sub id stays nil.  Names of ids the taxonomy does not
\* have stay empty
CategoryMapResult(cfg, mapping) ==
    Classification(mapping.standard_id, Nil, NamesOf(cfg, mapping.standard_id, Nil, ""))

\* CategoryMappingHelper.MapCategory on the helper built from the file: the
\* lookup is by code alone, and a later entry of a code has replaced an earlier
\* one in the helper's map
HelperMapCategory(cfg, sourceKey, sourceTypeID) ==
    IF sourceKey \notin DOMAIN cfg.source_mappings THEN DefaultClassification
    ELSE LET mappings == cfg.source_mappings[sourceKey]
             hits == {k \in 1..Len(mappings) : mappings[k].source_type_id = sourceTypeID}
         IN  IF hits = {} THEN DefaultClassification
             ELSE CategoryMapResult(cfg,
                      mappings[CHOOSE k \in hits : \A j \in hits : j <= k])

\* mapCategoryWithDB: the active exact rule, then the helper unless it is nil
\* (the file did not load) or answers 99, then the default
mapCategoryWithDB(R, cfg, sourceKey, sourceTypeID, sourceTypeName) ==
    LET ex == FindExact(R, sourceKey, sourceTypeID)
    IN  IF ex.found
        THEN Classification(ex.row.standard_id, ex.row.standard_sub_id,
                getStandardCategoryNames(cfg, ex.row.standard_id, ex.row.standard_sub_id))
        ELSE IF /\ cfg.loaded
                /\ HelperMapCategory(cfg, sourceKey, sourceTypeID).standard_id
                      # DefaultStandardID
        THEN HelperMapCategory(cfg, sourceKey, sourceTypeID)
        ELSE DefaultClassification

\* ImportVideoFromJSON over the videos of a collected file: every video is saved
\* with the classification mapCategoryWithDB returns for its source, code and
\* display name.  The saved rows are kept in the record of the call; the pass
\* writes none of the three tables of the engine
ImportVideoFromJSON(videos) ==
    /\ last' = [Call("ImportVideoFromJSON") EXCEPT
                   !.items = [i \in 1..Len(videos) |->
                                [source_key |-> videos[i][1],
                                 type_id |-> videos[i][2],
                                 type_name |-> videos[i][3],
                                 res |-> mapCategoryWithDB(rules, config, videos[i][1],
                                                           videos[i][2], videos[i][3])]]]
    /\ UNCHANGED <<rules, unmapped, fuzzy, config, now, calls>>

\* MappingAdminHandler.AddFuzzyMatchRule: POST /fuzzy-rules
AddFuzzyMatchRule(pattern, standardID, standardSubID, priority) ==
    /\ now < MaxTime
    /\ now' = now + 1
    /\ fuzzy' = fuzzy \cup
                {[id |-> NextId(fuzzy), pattern |-> pattern,
                  standard_id |-> standardID, standard_sub_id |-> standardSubID,
                  priority |-> IF priority = 0 THEN FuzzyPriority ELSE priority,
                  is_active |-> TRUE]}
    /\ last' = [Call("AddFuzzyMatchRule") EXCEPT
                   !.id = NextId(fuzzy), !.standard_id = standardID,
                   !.standard_sub_id = standardSubID]
    /\ UNCHANGED <<rules, unmapped, config, calls>>

\* the configuration file after an edit: another taxonomy and other legacy
\* mappings than the file read at start-up
CategoryMappingConfigEdited ==
    [loaded |-> TRUE,
     standard_categories |->
        (Itoa(1) :> [name |-> "Film", subcategories |-> (Itoa(101) :> "Fight")]) @@
        (Itoa(2) :> [name |-> "Series", subcategories |-> (Itoa(201) :> "Domestic")]),
     source_mappings |->
        ("xlzy" :> <<[source_type_id |-> 20, source_name |-> NameTV,
                      standard_id |-> 1, standard_sub_id |-> 101]>>)]

\* the zero value of CategoryMappingConfig that json.Unmarshal fills
ZeroConfig == [loaded |-> TRUE, standard_categories |-> <<>>, source_mappings |-> <<>>]

\* what LoadConfig can find at the path of the configuration file: a file that
\* decodes, no file, or a file whose decoding stops with an error after the
\* taxonomy has been filled in
ConfigFiles ==
    {[kind |-> "ok", decoded |-> CategoryMappingConfig],
     [kind |-> "ok", decoded |-> CategoryMappingConfigEdited],
     [kind |-> "missing", decoded |-> ZeroConfig],
     [kind |-> "malformed",
      decoded |-> [ZeroConfig EXCEPT
                     !.standard_categories = CategoryMappingConfigEdited.standard_categories]]}

\* positions of a goroutine between Lock and Unlock, and between RLock and RUnlock
LockedPcs == {"LoadConfig:locked", "LoadConfig:read", "LoadConfig:decoded"}
RLockedPcs == {"MapCategory:rlocked", "MapCategory:found", "getStandardCategoryNames:rlocked"}

Started(p) == calls[p].pc \in LockedPcs \cup RLockedPcs

\* mu.Lock returns when no other goroutine holds the mutex
LockFree(C, p) == \A q \in DOMAIN C \ {p} : C[q].pc \notin LockedPcs \cup RLockedPcs

\* a read lock that does not wait for the writer
RLockNoWait(C, p) == \A q \in DOMAIN C \ {p} : C[q].pc \notin {}

\* mu.RLock returns when no other goroutine holds the write lock
RLockFree(C, p) == \A q \in DOMAIN C \ {p} : C[q].pc \notin LockedPcs

\* LoadConfig: s.mu.Lock()
LoadConfigLock(p) ==
    /\ ~Started(p)
    /\ LockFree(calls, p)
    /\ calls' = [calls EXCEPT ![p] = [pc |-> "LoadConfig:locked"]]
    /\ UNCHANGED <<rules, unmapped, fuzzy, config, now, last>>

\* LoadConfig: os.ReadFile; an error returns through the deferred Unlock
LoadConfigReadFile(p, file) ==
    /\ calls[p].pc = "LoadConfig:locked"
    /\ calls' = [calls EXCEPT ![p] =
                    IF file.kind = "missing"
                    THEN [pc |-> "LoadConfig:returned", ok |-> FALSE, local |-> ZeroConfig]
                    ELSE [pc |-> "LoadConfig:read", file |-> file]]
    /\ UNCHANGED <<rules, unmapped, fuzzy, config, now, last>>

\* LoadConfig: json.Unmarshal into the local config; an error returns through
\* the deferred Unlock
LoadConfigUnmarshal(p) ==
    /\ calls[p].pc = "LoadConfig:read"
    /\ calls' = [calls EXCEPT ![p] =
                    IF calls[p].file.kind = "malformed"
                    THEN [pc |-> "LoadConfig:returned", ok |-> FALSE,
                          local |-> calls[p].file.decoded]
                    ELSE [pc |-> "LoadConfig:decoded", local |-> calls[p].file.decoded]]
    /\ UNCHANGED <<rules, unmapped, fuzzy, config, now, last>>

\* LoadConfig: s.config = &config, return nil and the deferred Unlock
LoadConfigPublish(p) ==
    /\ calls[p].pc = "LoadConfig:decoded"
    /\ config' = calls[p].local
    /\ calls' = [calls EXCEPT ![p] =
                    [pc |-> "LoadConfig:returned", ok |-> TRUE, local |-> calls[p].local]]
    /\ UNCHANGED <<rules, unmapped, fuzzy, now, last>>

\* MapCategory: s.mu.RLock()
MapCategoryRLock(p, sourceKey, sourceTypeID, sourceTypeName) ==
    /\ ~Started(p)
    /\ RLockFree(calls, p)
    /\ calls' = [calls EXCEPT ![p] =
                    [pc |-> "MapCategory:rlocked", source_key |-> sourceKey,
                     source_type_id |-> sourceTypeID, source_type_name |-> sourceTypeName]]
    /\ UNCHANGED <<rules, unmapped, fuzzy, config, now, last>>

\* the legacy entry MapCategory stops at, by code and then by name
LegacyHit(cfg, sourceKey, sourceTypeID, sourceTypeName) ==
    IF ~cfg.loaded \/ sourceKey \notin DOMAIN cfg.source_mappings THEN NotFound
    ELSE LET mappings == cfg.source_mappings[sourceKey]
             i == FirstIndex({k \in 1..Len(mappings) :
                                mappings[k].source_type_id = sourceTypeID})
             j == FirstIndex({k \in 1..Len(mappings) :
                                mappings[k].source_name = sourceTypeName})
         IN  IF i # 0 THEN [found |-> TRUE, mapping |-> mappings[i]]
             ELSE IF j # 0 THEN [found |-> TRUE, mapping |-> mappings[j]]
             ELSE NotFound

\* MapCategory: the nil test of s.config and the two loops over
\* s.config.SourceMappings[sourceKey]; without a hit it returns the default
\* through the deferred RUnlock
MapCategoryFind(p) ==
    LET c == calls[p]
        hit == LegacyHit(config, c.source_key, c.source_type_id, c.source_type_name)
        seen == [loaded |-> config.loaded,
                 source_mappings |-> IF config.loaded THEN config.source_mappings ELSE <<>>]
        args == [source_key |-> c.source_key, source_type_id |-> c.source_type_id,
                 source_type_name |-> c.source_type_name]
    IN  /\ c.pc = "MapCategory:rlocked"
        /\ calls' = [calls EXCEPT ![p] =
                        IF hit.found
                        THEN [pc |-> "MapCategory:found", args |-> args,
                              mapping |-> hit.mapping, seen |-> seen]
                        ELSE [pc |-> "MapCategory:returned", args |-> args,
                              named |-> FALSE, seen |-> seen,
                              res |-> DefaultClassification]]
        /\ UNCHANGED <<rules, unmapped, fuzzy, config, now, last>>

\* MapCategory: the names of the hit from s.config.StandardCategories, return
\* and the deferred RUnlock
MapCategoryNames(p) ==
    LET c == calls[p]
        m == c.mapping
    IN  /\ c.pc = "MapCategory:found"
        /\ calls' = [calls EXCEPT ![p] =
                        [pc |-> "MapCategory:returned", args |-> c.args, named |-> TRUE,
                         seen |-> [loaded |-> c.seen.loaded,
                                   source_mappings |-> c.seen.source_mappings,
                                   standard_categories |-> config.standard_categories],
                         res |-> Classification(m.standard_id, m.standard_sub_id,
                                    NamesOf(config, m.standard_id, m.standard_sub_id,
                                            DefaultName))]]
        /\ UNCHANGED <<rules, unmapped, fuzzy, config, now, last>>

\* getStandardCategoryNames: s.mu.RLock()
StandardCategoryNamesRLock(p, standardID, standardSubID) ==
    /\ ~Started(p)
    /\ RLockFree(calls, p)
    /\ calls' = [calls EXCEPT ![p] =
                    [pc |-> "getStandardCategoryNames:rlocked",
                     standard_id |-> standardID, standard_sub_id |-> standardSubID]]
    /\ UNCHANGED <<rules, unmapped, fuzzy, config, now, last>>

\* getStandardCategoryNames: the nil test of s.config, the entry of
\* s.config.StandardCategories, return and the deferred RUnlock
StandardCategoryNamesRead(p) ==
    LET c == calls[p]
    IN  /\ c.pc = "getStandardCategoryNames:rlocked"
        /\ calls' = [calls EXCEPT ![p] =
                        [pc |-> "getStandardCategoryNames:returned",
                         standard_id |-> c.standard_id, standard_sub_id |-> c.standard_sub_id,
                         names |-> getStandardCategoryNames(config, c.standard_id,
                                                            c.standard_sub_id)]]
        /\ UNCHANGED <<rules, unmapped, fuzzy, config, now, last>>

\* the text in front of the ids of a suggestion, and the text of a record
\* without suggestion
SuggestedMappingPrefix == <<"t", "o", " ">>
ManualMapping == <<"m", "a", "n", "u", "a", "l">>

\* ReviewUnmappedCategories: the description of the suggestion of one record
SuggestedMapping(cat) ==
    IF cat.suggested_id # Nil
    THEN SuggestedMappingPrefix \o Itoa(cat.suggested_id) \o
         (IF cat.suggested_sub_id # Nil THEN <<"-">> \o Itoa(cat.suggested_sub_id) ELSE <<>>)
    ELSE ManualMapping

\* the orders a query sorted by the video count alone can return rows in
OrderByVideoCount(rows) ==
    {s \in [1..Cardinality(rows) -> rows] :
        \A i, j \in 1..Cardinality(rows) :
            i < j => /\ s[i] # s[j]
                     /\ s[i].video_count >= s[j].video_count}

\* Order("video_count DESC, last_seen_at DESC"): the orders the query can
\* return rows in; rows equal in both columns come in any order
OrderByVideoCountLastSeen(rows) ==
    {s \in [1..Cardinality(rows) -> rows] :
        \A i, j \in 1..Cardinality(rows) :
            i < j => /\ s[i] # s[j]
                     /\ \/ s[i].video_count > s[j].video_count
                        \/ /\ s[i].video_count = s[j].video_count
                           /\ s[i].last_seen_at >= s[j].last_seen_at}

\* ReviewUnmappedCategories: GET /api/admin/unmapped-categories/review
ReviewUnmappedCategories(sourceKey) ==
    LET rows == {u \in unmapped :
                    /\ u.status = "pending"
                    /\ sourceKey # "" => u.source_key = sourceKey}
    IN  /\ \E categories \in OrderByVideoCountLastSeen(rows) :
              last' = [Call("ReviewUnmappedCategories") EXCEPT
                          !.source_key = sourceKey,
                          !.items = [i \in 1..Cardinality(rows) |->
                                        [category |-> categories[i],
                                         suggested_mapping |->
                                             SuggestedMapping(categories[i])]]]
        /\ UNCHANGED <<rules, unmapped, fuzzy, config, now, calls>>

\* MapCategoryEnhanced in a goroutine, up to the return of the First of
\* recordUnmappedCategory; a call that does not observe the key returns
ResolveFirst(p, sourceKey, sourceTypeID, sourceTypeName) ==
    /\ calls[p].pc = "idle"
    /\ \E fuzzyRule \in FuzzyFound(fuzzy) :
         LET out == MapCategoryEnhanced(rules, config, sourceKey, sourceTypeID,
                                        sourceTypeName, fuzzyRule)
         IN  calls' = [calls EXCEPT ![p] =
                          [pc |-> IF out.observe THEN "Resolve:first" ELSE "Resolve:returned",
                           source_key |-> sourceKey, source_type_id |-> sourceTypeID,
                           observe |-> out.observe,
                           suggested_id |-> out.suggested_id,
                           suggested_sub_id |-> out.suggested_sub_id,
                           existing |-> FindUnmapped(unmapped, sourceKey, sourceTypeID)]]
    /\ UNCHANGED <<rules, unmapped, fuzzy, config, now, last>>

\* MapCategoryEnhanced in a goroutine, from the Create or the Updates of
\* recordUnmappedCategory to its return: Create inserts a row under a new id,
\* Updates changes the row of the id that First loaded
ResolveWrite(p) ==
    LET c == calls[p]
        t == now + 1
    IN  /\ c.pc = "Resolve:first"
        /\ now < MaxTime
        /\ now' = t
        /\ unmapped' =
              IF ~c.existing.found
              THEN unmapped \cup
                   {[id |-> NextId(unmapped), source_key |-> c.source_key,
                     source_type_id |-> c.source_type_id,
                     first_seen_at |-> t, last_seen_at |-> t,
                     video_count |-> 1, status |-> "pending",
                     suggested_id |-> c.suggested_id,
                     suggested_sub_id |-> c.suggested_sub_id,
                     mapped_id |-> Nil, mapped_sub_id |-> Nil]}
              ELSE {IF u.id # c.existing.row.id THEN u
                    ELSE [u EXCEPT !.last_seen_at = t,
                                   !.video_count = @ + 1,
                                   !.suggested_id =
                                       IF c.suggested_id # Nil THEN c.suggested_id ELSE @,
                                   !.suggested_sub_id =
                                       IF c.suggested_id # Nil THEN c.suggested_sub_id ELSE @] :
                    u \in unmapped}
        /\ calls' = [calls EXCEPT ![p].pc = "Resolve:returned"]
        /\ UNCHANGED <<rules, fuzzy, config, last>>

\* the CategoryPreview of one class of the feed, given the rules: the mapping of
\* an active rule of the key, or else the suggestion for the display name
CategoryPreview(R, sourceKey, class) ==
    LET rule == FirstById({r \in R : /\ r.source_key = sourceKey
                                    /\ r.source_type_id = class.type_id
                                    /\ r.is_active})
        suggestion == suggestMapping(class.type_name)
    IN  IF rule.found
        THEN [type_id |-> class.type_id, type_name |-> class.type_name,
              mapped |-> TRUE,
              mapped_to |-> IF rule.row.standard_sub_id # Nil
                            THEN Itoa(rule.row.standard_id) \o <<"-">>
                                 \o Itoa(rule.row.standard_sub_id)
                            ELSE Itoa(rule.row.standard_id),
              suggested_id |-> Nil, suggested_sub_id |-> Nil, confidence |-> ""]
        ELSE [type_id |-> class.type_id, type_name |-> class.type_name,
              mapped |-> FALSE, mapped_to |-> <<>>,
              suggested_id |-> suggestion.standard_id,
              suggested_sub_id |-> suggestion.standard_sub_id,
              confidence |-> suggestion.confidence]

\* SourceDiscoveryHandler.DiscoverSourceCategories: POST /source/discover, with
\* the class list the feed answered.  categoryMap keeps the last class of each
\* code; the response lists the previews in the order Go ranges over the map,
\* so it is kept as the set of its previews, in flight to the client p
DiscoverSourceCategories(p, sourceKey, classes) ==
    LET categoryMap ==
            {i \in 1..Len(classes) :
                \A j \in 1..Len(classes) : classes[j].type_id = classes[i].type_id => j <= i}
    IN  /\ calls' = [calls EXCEPT ![p] =
                        [pc |-> "discovered", rule |-> NotFound, existing |-> NotFound,
                         ok |-> TRUE, source_key |-> sourceKey,
                         categories |-> {CategoryPreview(rules, sourceKey, classes[i]) :
                                            i \in categoryMap}]]
        /\ last' = [Call("DiscoverSourceCategories") EXCEPT !.source_key = sourceKey]
        /\ UNCHANGED <<rules, unmapped, fuzzy, config, now>>

\* AddMappingRule in a request goroutine, up to the return of its lookup
AddMappingRuleLookup(p, rule) ==
    /\ calls[p].pc = "idle"
    /\ calls' = [calls EXCEPT ![p] =
                    [pc |-> "looked", rule |-> rule,
                     existing |-> FindRule(rules, rule.source_key, rule.source_type_id),
                     ok |-> TRUE]]
    /\ UNCHANGED <<rules, unmapped, fuzzy, config, now, last>>

\* AddMappingRule in a request goroutine, from its Create or Updates to its return
AddMappingRuleWrite(p) ==
    LET saved == SaveRule(rules, calls[p].existing, calls[p].rule, now + 1)
    IN  /\ calls[p].pc = "looked"
        /\ IF saved.ok
           THEN /\ now < MaxTime
                /\ now' = now + 1
                /\ rules' = saved.rules
           ELSE UNCHANGED <<rules, now>>
        /\ calls' = [calls EXCEPT ![p].pc = "done", ![p].ok = saved.ok]
        /\ UNCHANGED <<unmapped, fuzzy, config, last>>

----------------------------------------------------------------------------
(* Specifications *)

\* the ids a request may name: every row of the table and one id of no row
IdsOf(T) == 1..(Cardinality(T) + 1)

\* the calls of each handler, over the request values
DoResolve == \E q \in Requests : Resolve(q[1], q[2], q[3])

\* the storage failures that can strike a call on the record of this id
FailModesOf(U, id) == IF FindById(U, id).found THEN FailModes ELSE {"none"}

DoApplyUnmappedCategoryMapping ==
    \E id \in IdsOf(unmapped), t \in Targets :
        \E f \in FailModesOf(unmapped, id) :
            ApplyUnmappedCategoryMapping(id, t[1], t[2], f)

DoApplyCategoryMapping ==
    \E id \in IdsOf(unmapped), t \in Targets :
        \E f \in FailModesOf(unmapped, id) :
            ApplyCategoryMapping(id, t[1], t[2], f)

DoAddMappingRule ==
    \E k \in Keys, t \in Targets, p \in Priorities :
        AddMappingRuleHandler(k[1], k[2], t[1], t[2], p)

DoQuickMapCategory ==
    \E k \in Keys, t \in Targets : QuickMapCategory(k[1], k[2], t[1], t[2])

DoDeleteMappingRule == \E id \in IdsOf(rules) : DeleteMappingRule(id)

\* the learning loop: ingestion, promotion of discovery records, deactivation
Next ==
    \/ DoResolve
    \/ DoApplyUnmappedCategoryMapping
    \/ DoApplyCategoryMapping
    \/ DoDeleteMappingRule

Spec == Init /\ [][Next]_vars

\* the administration specifications stop the clock at MaxAdminTime
WithinAdminTime == now' <= MaxAdminTime

\* resolution against an administered rule repository
NextResolve ==
    \/ DoResolve /\ WithinAdminTime
    \/ DoQuickMapCategory /\ WithinAdminTime
    \/ DoDeleteMappingRule /\ WithinAdminTime

SpecResolve == Init /\ [][NextResolve]_vars

\* the rule repository under administration
NextRules ==
    \/ DoAddMappingRule /\ WithinAdminTime
    \/ DoQuickMapCategory /\ WithinAdminTime
    \/ DoDeleteMappingRule /\ WithinAdminTime

SpecRules == Init /\ [][NextRules]_vars

\* the item lists of a batch request
BatchTargets == {<<2, 205>>}

Items(U) ==
    {[unmapped_id |-> id, standard_id |-> t[1], standard_sub_id |-> t[2]] :
        id \in IdsOf(U), t \in BatchTargets}

RECURSIVE ListsOfLen(_, _)
ListsOfLen(S, n) ==
    IF n = 0 THEN {<<>>}
    ELSE {Append(l, m) : l \in ListsOfLen(S, n - 1), m \in S}

ItemLists(U) == UNION {ListsOfLen(Items(U), n) : n \in 0..MaxBatch}

DoBatchApplyUnmappedCategories ==
    \E items \in ItemLists(unmapped) : BatchApplyUnmappedCategories(items)

\* batch promotion of what ingestion discovered
NextBatch ==
    \/ DoResolve /\ WithinAdminTime
    \/ DoDeleteMappingRule /\ WithinAdminTime
    \/ DoBatchApplyUnmappedCategories /\ WithinAdminTime

SpecBatch == Init /\ [][NextBatch]_vars

\* the classes a feed may list, (code, display name), and the listings of two
\* different classes in feed order
ClassEntries ==
    {[type_id |-> 17, type_name |-> NamePaddedKr],
     [type_id |-> 17, type_name |-> NameUpperTV],
     [type_id |-> 20, type_name |-> NameAct],
     [type_id |-> 20, type_name |-> NameEmpty]}

ClassLists == {l \in ListsOfLen(ClassEntries, 2) : l[1] # l[2]}

\* confidence thresholds a request may carry ("" absent: medium)
Thresholds == {"", "high", "low"}

Sources == {"xlzy", "bfzy"}

DoAutoApplySuggestedMappings ==
    \E s \in Sources, classes \in ClassLists, th \in Thresholds :
        AutoApplySuggestedMappings(s, classes, th)

\* the id sets of a full batch request on table T
BatchIds(T) == {ids \in SUBSET IdsOf(T) : Cardinality(ids) = MaxBatch}

\* the calls of the specification of all rule writers: one target, no storage
\* failure, the default threshold
DoUpsertRule ==
    \E k \in Keys, t \in BatchTargets : QuickMapCategory(k[1], k[2], t[1], t[2])

DoPromote ==
    \E id \in IdsOf(unmapped), t \in BatchTargets :
        ApplyUnmappedCategoryMapping(id, t[1], t[2], "none")

DoPromoteCreate ==
    \E id \in IdsOf(unmapped), t \in BatchTargets :
        ApplyCategoryMapping(id, t[1], t[2], "none")

\* the class list each feed answers
FeedClasses ==
    ("xlzy" :> <<[type_id |-> 17, type_name |-> NamePaddedKr],
                 [type_id |-> 20, type_name |-> NameUpperTV]>>) @@
    ("bfzy" :> <<[type_id |-> 20, type_name |-> NameAct],
                 [type_id |-> 17, type_name |-> NameEmpty]>>)

DoAutoApply == \E s \in Sources : AutoApplySuggestedMappings(s, FeedClasses[s], "")

DoBatchPromote ==
    \E items \in ListsOfLen(Items(unmapped), MaxBatch) :
        BatchApplyUnmappedCategories(items)

DoBatchActivate ==
    \E ids \in BatchIds(rules) : BatchUpdateMappingRules(ids, <<TRUE>>, <<>>)

DoBatchDeactivate == \E ids \in BatchIds(rules) : BatchDeleteMappingRules(ids)

WithinRuleWrites == now' <= MaxRuleWrites

\* every operation that writes rules, with the ingestion that feeds promotion
NextAdmin ==
    \/ DoResolve /\ WithinRuleWrites
    \/ DoUpsertRule /\ WithinRuleWrites
    \/ DoPromote /\ WithinRuleWrites
    \/ DoPromoteCreate /\ WithinRuleWrites
    \/ DoBatchPromote /\ WithinRuleWrites
    \/ DoAutoApply /\ WithinRuleWrites
    \/ DoBatchActivate /\ WithinRuleWrites
    \/ DoBatchDeactivate /\ WithinRuleWrites
    \/ DoDeleteMappingRule /\ WithinRuleWrites

SpecAdmin == Init /\ [][NextAdmin]_vars

DoResolveLookupError == \E q \in Requests : ResolveLookupError(q[1], q[2], q[3])

\* ingestion while the rule storage has outages
NextOutage ==
    \/ DoResolve /\ WithinAdminTime
    \/ DoResolveLookupError /\ WithinAdminTime
    \/ DoDeleteMappingRule /\ WithinAdminTime

SpecOutage == Init /\ [][NextOutage]_vars

DoDiscoverSourceCategories ==
    \E p \in Procs, s \in Sources, class \in ClassEntries :
        DiscoverSourceCategories(p, s, <<class>>)

\* discovery of a feed's categories while rules are created and deactivated
NextSuggest ==
    \/ DoDiscoverSourceCategories /\ WithinRuleWrites
    \/ DoAutoApply /\ WithinRuleWrites
    \/ DoDeleteMappingRule /\ WithinRuleWrites

SpecSuggest == Init /\ [][NextSuggest]_vars

\* rule creation by auto-apply over the listings of the feeds
NextAuto ==
    \/ DoAutoApplySuggestedMappings /\ WithinRuleWrites
    \/ DoDeleteMappingRule /\ WithinRuleWrites

SpecAuto == Init /\ [][NextAuto]_vars

\* the service right after NewCategoryMappingService on an empty database, with
\* the configuration file whose legacy entry is not covered by the taxonomy
InitStale ==
    /\ now = 0
    /\ unmapped = {}
    /\ calls = [p \in Procs |-> IdleCall]
    /\ last = Call("init")
    /\ config = CategoryMappingConfigStale
    /\ \E order \in SourceOrders : rules = ImportedRules(CategoryMappingConfigStale, order)
    /\ fuzzy = ImportedFuzzyRules

\* resolution against a configuration whose taxonomy lags behind its mappings
NextStale ==
    \/ DoResolve /\ WithinAdminTime
    \/ DoQuickMapCategory /\ WithinAdminTime
    \/ DoDeleteMappingRule /\ WithinAdminTime

SpecStale == InitStale /\ [][NextStale]_vars

\* the service right after NewCategoryMappingService on an empty database when
\* LoadConfig failed (file unreadable or malformed): s.config stays nil,
\* InitializeMappingRules returns at its config == nil test before it creates a
\* rule, both errors are dropped, and the service is handed to its callers
InitLoadFailed ==
    /\ now = 0
    /\ unmapped = {}
    /\ calls = [p \in Procs |-> IdleCall]
    /\ last = Call("init")
    /\ config = NoConfig
    /\ rules = {}
    /\ fuzzy = {}

\* construction with a configuration file that loads or that fails to load
InitStartup == Init \/ InitLoadFailed

\* the service in use after either start-up
NextStartup ==
    \/ DoResolve /\ WithinAdminTime
    \/ DoQuickMapCategory /\ WithinAdminTime
    \/ DoDeleteMappingRule /\ WithinAdminTime

SpecStartup == InitStartup /\ [][NextStartup]_vars

\* the mappings a batch mapping request may list: (code, standard id, sub id)
Mappings ==
    {[source_type_id |-> 17, standard_id |-> 2, standard_sub_id |-> 205],
     [source_type_id |-> 17, standard_id |-> 1, standard_sub_id |-> Nil],
     [source_type_id |-> 20, standard_id |-> 1, standard_sub_id |-> Nil]}

MappingLists == UNION {ListsOfLen(Mappings, n) : n \in 1..MaxBatch}

DoBatchQuickMap ==
    \E s \in Sources, mappings \in MappingLists : BatchQuickMap(s, mappings)

\* the two batch operations, run and run again
NextRerun ==
    \/ DoResolve /\ WithinRuleWrites
    \/ DoBatchApplyUnmappedCategories /\ WithinRuleWrites
    \/ DoBatchQuickMap /\ WithinRuleWrites
    \/ DoDeleteMappingRule /\ WithinRuleWrites

SpecRerun == Init /\ [][NextRerun]_vars

\* the videos of a collected file, in file order
VideoLists == UNION {ListsOfLen(Requests, n) : n \in 1..MaxBatch}

DoImportVideoFromJSON == \E videos \in VideoLists : ImportVideoFromJSON(videos)

\* ingestion passes next to the resolver and the administration of rules
NextIngest ==
    \/ DoImportVideoFromJSON /\ WithinRuleWrites
    \/ DoResolve /\ WithinRuleWrites
    \/ DoQuickMapCategory /\ WithinRuleWrites
    \/ DoDeleteMappingRule /\ WithinRuleWrites

SpecIngest == Init /\ [][NextIngest]_vars

\* the fuzzy rules administrators add: a pattern, a target without sub id, and
\* a priority (0: field absent)
FuzzyPatterns == {<<"k", "r">>, <<"t", "v">>}

DoAddFuzzyMatchRule ==
    \E pattern \in FuzzyPatterns, p \in Priorities :
        AddFuzzyMatchRule(pattern, 1, Nil, p)

\* ingestion while fuzzy rules are added
NextFuzzy ==
    \/ DoResolve /\ WithinAdminTime
    \/ DoAddFuzzyMatchRule /\ WithinAdminTime
    \/ DoDeleteMappingRule /\ WithinAdminTime

SpecFuzzy == Init /\ [][NextFuzzy]_vars

\* the class list each feed answers to a discovery scan
ScanClasses ==
    ("xlzy" :> <<[type_id |-> 17, type_name |-> NameCnAnime],
                 [type_id |-> 20, type_name |-> NameTvAct],
                 [type_id |-> 21, type_name |-> NamePaddedKr],
                 [type_id |-> 22, type_name |-> NameUpperTV]>>) @@
    ("bfzy" :> <<[type_id |-> 17, type_name |-> Name4kFilm],
                 [type_id |-> 20, type_name |-> NameUpper4kFilm],
                 [type_id |-> 21, type_name |-> NameMovie],
                 [type_id |-> 22, type_name |-> NameEmpty]>>)

DoDiscoverFeed ==
    \E p \in Procs, s \in Sources : DiscoverSourceCategories(p, s, ScanClasses[s])

\* discovery scans of whole feeds while rules are written
NextScan ==
    \/ DoDiscoverFeed /\ WithinRuleWrites
    \/ DoQuickMapCategory /\ WithinRuleWrites
    \/ DoDeleteMappingRule /\ WithinRuleWrites

SpecScan == Init /\ [][NextScan]_vars

DoLoadConfigLock == \E p \in Procs : LoadConfigLock(p)

DoLoadConfigReadFile == \E p \in Procs, file \in ConfigFiles : LoadConfigReadFile(p, file)

DoLoadConfigUnmarshal == \E p \in Procs : LoadConfigUnmarshal(p)

DoLoadConfigPublish == \E p \in Procs : LoadConfigPublish(p)

DoMapCategoryRLock ==
    \E p \in Procs, q \in {<<"xlzy", 20, NameTV>>, <<"bfzy", 17, NameMisc>>,
                           <<"xlzy", 17, NameKr>>} :
        MapCategoryRLock(p, q[1], q[2], q[3])

DoMapCategoryFind == \E p \in Procs : MapCategoryFind(p)

DoMapCategoryNames == \E p \in Procs : MapCategoryNames(p)

DoStandardCategoryNamesRLock ==
    \E p \in Procs, t \in {<<2, 201>>, <<1, Nil>>} : StandardCategoryNamesRLock(p, t[1], t[2])

DoStandardCategoryNamesRead == \E p \in Procs : StandardCategoryNamesRead(p)

\* reloads of the configuration file and the readers of the configuration,
\* interleaved statement by statement
NextReload ==
    \/ DoLoadConfigLock
    \/ DoLoadConfigReadFile
    \/ DoLoadConfigUnmarshal
    \/ DoLoadConfigPublish
    \/ DoMapCategoryRLock
    \/ DoMapCategoryFind
    \/ DoMapCategoryNames
    \/ DoStandardCategoryNamesRLock
    \/ DoStandardCategoryNamesRead

SpecReload == Init /\ [][NextReload]_vars

DoReviewUnmappedCategories ==
    \E s \in Sources \cup {""} : ReviewUnmappedCategories(s)

\* reviews of the discovery records while keys are resolved and promoted and
\* rules are deactivated
NextReview ==
    \/ DoResolve /\ WithinAdminTime
    \/ DoApplyCategoryMapping /\ WithinAdminTime
    \/ DoDeleteMappingRule /\ WithinAdminTime
    \/ DoReviewUnmappedCategories

SpecReview == Init /\ [][NextReview]_vars

DoResolveFirst == \E p \in Procs, q \in Requests : ResolveFirst(p, q[1], q[2], q[3])

DoResolveWrite == \E p \in Procs : ResolveWrite(p)

\* one Resolve per goroutine, interleaved statement by statement, after rules
\* have been deactivated
NextObserve ==
    \/ DoResolveFirst
    \/ DoResolveWrite
    \/ DoDeleteMappingRule /\ WithinRuleWrites /\ \A p \in Procs : calls[p].pc = "idle"

SpecObserve == Init /\ [][NextObserve]_vars

DoAddMappingRuleLookup ==
    \E p \in Procs, k \in Keys, t \in Targets :
        AddMappingRuleLookup(p, RuleValue(k[1], k[2], t[1], t[2], DefaultPriority))

DoAddMappingRuleWrite == \E p \in Procs : AddMappingRuleWrite(p)

\* two requests that upsert a rule, interleaved statement by statement
NextRace ==
    \/ DoAddMappingRuleLookup
    \/ DoAddMappingRuleWrite

SpecRace == Init /\ [][NextRace]_vars

----------------------------------------------------------------------------
(* Properties *)

\* the active rules of a key
ActiveRules(R, sourceKey, sourceTypeID) ==
    {r \in R : r.source_key = sourceKey /\ r.source_type_id = sourceTypeID /\ r.is_active}

\* the legacy entries of a key
LegacyEntries(cfg, sourceKey, sourceTypeID) ==
    IF ~cfg.loaded \/ sourceKey \notin DOMAIN cfg.source_mappings THEN {}
    ELSE {i \in 1..Len(cfg.source_mappings[sourceKey]) :
            cfg.source_mappings[sourceKey][i].source_type_id = sourceTypeID}

\* C1: whenever Resolve has answered for a (source, code) that has an active
\* exact rule, the answer is that rule's standard id and sub id and it comes
\* from the exact-rule step, whatever the display name, the legacy entries and
\* the fuzzy rules are.
C1_ExactRuleWins ==
    (last.op = "Resolve" /\ ActiveRules(rules, last.source_key, last.source_type_id) # {})
    => /\ last.step = "exact-rule"
       /\ \E r \in ActiveRules(rules, last.source_key, last.source_type_id) :
             /\ last.res.standard_id = r.standard_id
             /\ last.res.standard_sub_id = r.standard_sub_id

\* C1 witness: Resolve answered from an exact rule for a key whose legacy entry
\* points to another target
C1_Witness ==
    /\ last.op = "Resolve"
    /\ last.step = "exact-rule"
    /\ \E i \in LegacyEntries(config, last.source_key, last.source_type_id) :
          LET e == config.source_mappings[last.source_key][i]
          IN  e.standard_id # DefaultStandardID /\ e.standard_id # last.res.standard_id

\* the calls that promote a discovery record
Promotes == {"ApplyUnmappedCategoryMapping", "ApplyCategoryMapping"}

\* C2: after a successful promotion of a record to (standard id, sub id) there
\* is an active rule for the record's key with exactly that target, the record
\* is mapped with that target, and a Resolve of the key under any display name
\* answers that target from the exact-rule step, whatever rule the key had.
C2_PromoteInstallsTarget ==
    (last.op \in Promotes /\ last.ok)
    => /\ \E r \in ActiveRules(rules, last.source_key, last.source_type_id) :
             /\ r.standard_id = last.standard_id
             /\ r.standard_sub_id = last.standard_sub_id
       /\ \E u \in unmapped :
             /\ u.id = last.id
             /\ u.status = "mapped"
             /\ u.mapped_id = last.standard_id
             /\ u.mapped_sub_id = last.standard_sub_id
       /\ \A name \in Names, fuzzyRule \in FuzzyFound(fuzzy) :
             LET out == MapCategoryEnhanced(rules, config, last.source_key,
                                            last.source_type_id, name, fuzzyRule)
             IN  /\ out.step = "exact-rule"
                 /\ out.res.standard_id = last.standard_id
                 /\ out.res.standard_sub_id = last.standard_sub_id

\* the discovery records of a key
RecordsOf(U, sourceKey, sourceTypeID) ==
    {u \in U : u.source_key = sourceKey /\ u.source_type_id = sourceTypeID}

\* a key without active rule and without legacy entry, whose discovery record
\* is pending or absent
NeverMapped(sourceKey, sourceTypeID) ==
    /\ ActiveRules(rules, sourceKey, sourceTypeID) = {}
    /\ LegacyEntries(config, sourceKey, sourceTypeID) = {}
    /\ \A u \in RecordsOf(unmapped, sourceKey, sourceTypeID) : u.status = "pending"

\* the step created the key's record with count 1, or counted once more on it
ObservedOnce(sourceKey, sourceTypeID) ==
    LET old == RecordsOf(unmapped, sourceKey, sourceTypeID)
        new == RecordsOf(unmapped', sourceKey, sourceTypeID)
    IN  /\ Cardinality(new) = 1
        /\ \A n \in new :
              /\ n.status = "pending"
              /\ n.last_seen_at = now'
              /\ IF old = {}
                 THEN n.video_count = 1 /\ n.first_seen_at = now'
                 ELSE \A o \in old :
                        /\ n.id = o.id
                        /\ n.video_count = o.video_count + 1
                        /\ n.last_seen_at > o.last_seen_at
                        /\ n.first_seen_at = o.first_seen_at

\* the display name is the source name of a legacy entry of the source
LegacyName(cfg, sourceKey, sourceTypeName) ==
    /\ cfg.loaded
    /\ sourceKey \in DOMAIN cfg.source_mappings
    /\ \E i \in 1..Len(cfg.source_mappings[sourceKey]) :
          cfg.source_mappings[sourceKey][i].source_name = sourceTypeName

ObservesResolved ==
    /\ last'.op = "Resolve"
    /\ last'.step \in {"fuzzy-rule", "default"}
    /\ \E u \in RecordsOf(unmapped, last'.source_key, last'.source_type_id) :
          u.status \in {"mapped", "ignored"}

\* C4 as stated: a Resolve that falls through to fuzzy or default for a key
\* whose record is mapped or ignored does not modify the record.
C4_ObserveOnResolvedIsNoOp ==
    [][ObservesResolved
       => RecordsOf(unmapped', last'.source_key, last'.source_type_id)
          = RecordsOf(unmapped, last'.source_key, last'.source_type_id)]_vars

\* C4 amended: such a Resolve keeps the record's id, status, applied target and
\* first-seen, and it adds 1 to the count, refreshes last-seen, and replaces the
\* suggestion by the fuzzy rule's target when it ended at the fuzzy step.
C4_ObserveOnResolvedCounts ==
    [][ObservesResolved
       => \A o \in RecordsOf(unmapped, last'.source_key, last'.source_type_id) :
            RecordsOf(unmapped', last'.source_key, last'.source_type_id) =
              {[o EXCEPT
                  !.video_count = @ + 1,
                  !.last_seen_at = now',
                  !.suggested_id =
                      IF last'.step = "fuzzy-rule" THEN last'.res.standard_id ELSE @,
                  !.suggested_sub_id =
                      IF last'.step = "fuzzy-rule" THEN last'.res.standard_sub_id ELSE @]}]_vars

\* C4 witness: a promoted record whose rule was deactivated has been observed
\* again by a Resolve
C4_Witness ==
    /\ last.op = "Resolve"
    /\ last.step \in {"fuzzy-rule", "default"}
    /\ \E u \in RecordsOf(unmapped, last.source_key, last.source_type_id) :
          /\ u.status = "mapped"
          /\ u.video_count >= 2
          /\ u.last_seen_at = now
    /\ \E r \in rules :
          /\ r.source_key = last.source_key
          /\ r.source_type_id = last.source_type_id
          /\ ~r.is_active

\* C5: a promotion is atomic. Whether it returns success or an error, either
\* the rule store was written and the record is mapped with the requested
\* target, or neither the rule store nor the record has changed.
C5_PromoteAtomic ==
    [][last'.op \in Promotes
       => \/ /\ rules' = rules
             /\ unmapped' = unmapped
          \/ /\ rules' # rules
             /\ \E u \in unmapped' :
                   /\ u.id = last'.id
                   /\ u.status = "mapped"
                   /\ u.mapped_id = last'.standard_id
                   /\ u.mapped_sub_id = last'.standard_sub_id]_vars

\* both requests have returned and they named the same key
RacedOnOneKey ==
    /\ \A p \in Procs : calls[p].pc = "done"
    /\ \A p, q \in Procs :
          /\ calls[p].rule.source_key = calls[q].rule.source_key
          /\ calls[p].rule.source_type_id = calls[q].rule.source_type_id

\* C6: when two interleaved upserts of one key have both returned, neither has
\* failed, the key has exactly one rule, and that rule's standard id is the one
\* of one of the two calls.
C6_ConcurrentUpsertsConverge ==
    RacedOnOneKey
    => /\ \A p \in Procs : calls[p].ok
       /\ \A p \in Procs :
             LET mine == {r \in rules : /\ r.source_key = calls[p].rule.source_key
                                        /\ r.source_type_id = calls[p].rule.source_type_id}
             IN  /\ Cardinality(mine) = 1
                 /\ \A r \in mine :
                       \E q \in Procs : r.standard_id = calls[q].rule.standard_id

\* C7: after a batch promotion the two counters add up to the number of items,
\* every item whose record id names no record is among the failures, and every
\* item whose record id names a record is fully applied: its key has a rule and
\* its record is mapped, whatever happened to the items around it.
C7_BatchAppliesEachValidItem ==
    last.op = "BatchApplyUnmappedCategories"
    => LET valid == {i \in 1..Len(last.items) :
                        FindById(unmapped, last.items[i].unmapped_id).found}
       IN  /\ last.success_count + last.fail_count = Len(last.items)
           /\ last.fail_count >= Len(last.items) - Cardinality(valid)
           /\ \A i \in valid :
                 LET u == FindById(unmapped, last.items[i].unmapped_id).row
                 IN  /\ FindRule(rules, u.source_key, u.source_type_id).found
                     /\ u.status = "mapped"

\* the key has a rule and the rule is deactivated
Deactivated(sourceKey, sourceTypeID) ==
    /\ FindRule(rules, sourceKey, sourceTypeID).found
    /\ ActiveRules(rules, sourceKey, sourceTypeID) = {}

\* the active fuzzy rules with a token contained in the display name
MatchingFuzzy(F, sourceTypeName) ==
    {f \in F : f.is_active /\ FuzzyHit(f, sourceTypeName)}

\* what the fall-through order legacy-config, fuzzy, default promises
FallsThrough(sourceKey, sourceTypeID, sourceTypeName, res) ==
    LET legacy == LegacyEntries(config, sourceKey, sourceTypeID)
        match == MatchingFuzzy(fuzzy, sourceTypeName)
    IN  IF legacy # {}
        THEN \E i \in legacy :
               LET e == config.source_mappings[sourceKey][i]
               IN  /\ res.standard_id = e.standard_id
                   /\ res.standard_sub_id = e.standard_sub_id
        ELSE IF match # {}
        THEN \E f \in match :
               /\ \A g \in match : f.priority <= g.priority
               /\ res.standard_id = f.standard_id
               /\ res.standard_sub_id = f.standard_sub_id
        ELSE /\ res.standard_id = DefaultStandardID
             /\ res.standard_sub_id = Nil

\* C8: a Resolve of a key whose rule is deactivated never answers from the
\* exact-rule step; it answers the legacy entry's target if the key has a legacy
\* entry, otherwise the target of the first fuzzy rule that matches the display
\* name, otherwise the default classification.
C8_DeactivatedFallsThrough ==
    [][\A q \in Requests :
          (/\ last'.op = "Resolve"
           /\ Deactivated(q[1], q[2])
           /\ Resolve(q[1], q[2], q[3]))
          => /\ last'.step # "exact-rule"
             /\ FallsThrough(q[1], q[2], q[3], last'.res)]_vars

\* no two rules share a key
OneRulePerKey(R) ==
    \A r, q \in R :
        (r.source_key = q.source_key /\ r.source_type_id = q.source_type_id) => r = q

\* the rule store without its update timestamps
WithoutUpdatedAt(R) == {[r EXCEPT !.updated_at = 0] : r \in R}

\* the step upserted the rule value in place or as exactly one new rule
UpsertedInPlace(rule) ==
    LET old == FindRule(rules, rule.source_key, rule.source_type_id)
        new == FindRule(rules', rule.source_key, rule.source_type_id)
    IN  /\ new.found
        /\ OneRulePerKey(rules')
        /\ IF old.found
           THEN /\ new.row.id = old.row.id
                /\ new.row.created_at = old.row.created_at
                /\ rules' \ {new.row} = rules \ {old.row}
           ELSE /\ new.row \notin rules
                /\ rules' = rules \cup {new.row}

\* the steps that upsert the rule value
Upserts(rule) ==
    \/ /\ rule.priority = DefaultPriority
       /\ QuickMapCategory(rule.source_key, rule.source_type_id,
                           rule.standard_id, rule.standard_sub_id)
    \/ \E p \in Priorities :
          /\ rule.priority = (IF p = 0 THEN DefaultPriority ELSE p)
          /\ AddMappingRuleHandler(rule.source_key, rule.source_type_id,
                                   rule.standard_id, rule.standard_sub_id, p)

\* the rule values a request can carry
RuleValues ==
    {RuleValue(k[1], k[2], t[1], t[2], p) :
        k \in Keys, t \in Targets, p \in (Priorities \ {0}) \cup {DefaultPriority}}

C11_OneActiveRulePerKey ==
    \A r \in rules :
        r.is_active => ActiveRules(rules, r.source_key, r.source_type_id) = {r}

\* a batch update has switched several rules on again, one of them created by a
\* request after start-up
C11_Witness ==
    /\ last.op = "BatchUpdateMappingRules"
    /\ last.affected >= 2
    /\ \E r \in rules : /\ r.is_active
                        /\ r.updated_at = now
                        /\ 0 < r.created_at /\ r.created_at < now
    /\ \A r \in rules : r.updated_at = now => r.is_active

\* the matching fuzzy rules that come first in ascending priority order
FirstMatchingFuzzy(F, sourceTypeName) ==
    {f \in MatchingFuzzy(F, sourceTypeName) :
        \A g \in MatchingFuzzy(F, sourceTypeName) : f.priority <= g.priority}

\* C12: a Resolve that reaches the fuzzy step answers from the fuzzy step
\* whenever some active fuzzy rule has a token contained in the display name,
\* with the target of a matching rule that comes first in priority order, also
\* when the rule that matches is not the first of all active rules.
C12_FuzzyScansAllRules ==
    [][\A q \in Requests :
          (/\ last'.op = "Resolve"
           /\ Resolve(q[1], q[2], q[3])
           /\ last'.step \in {"fuzzy-rule", "default"}
           /\ MatchingFuzzy(fuzzy, q[3]) # {})
          => /\ last'.step = "fuzzy-rule"
             /\ \E f \in FirstMatchingFuzzy(fuzzy, q[3]) :
                   /\ last'.res.standard_id = f.standard_id
                   /\ last'.res.standard_sub_id = f.standard_sub_id]_vars

\* some token of the pattern occurs in the display name, letter case ignored
MatchesFold(pattern, sourceTypeName) ==
    \E i \in 1..Len(Split(pattern)) :
        Contains(ToLower(sourceTypeName), ToLower(Split(pattern)[i]))

\* C13: a fuzzy rule matches a display name exactly when one of the tokens of
\* its '|'-separated pattern occurs in the name as a substring, letter case
\* ignored: a Resolve that reaches the fuzzy step answers from it if the rule
\* it tests matches in this sense, and with the default if the rule does not.
C13_FuzzyMatchIgnoresCase ==
    [][\A q \in Requests :
          (/\ last'.op = "Resolve"
           /\ Resolve(q[1], q[2], q[3])
           /\ last'.step \in {"fuzzy-rule", "default"})
          => /\ (\A f \in FuzzyFound(fuzzy) : MatchesFold(f.pattern, q[3]))
                  => last'.step = "fuzzy-rule"
             /\ (\A f \in FuzzyFound(fuzzy) : ~MatchesFold(f.pattern, q[3]))
                  => last'.step = "default"]_vars

\* C14: a Resolve whose exact-rule lookup fails with a storage error reports an
\* error to its caller and returns no classification taken from the legacy,
\* fuzzy or default step.
C14_LookupErrorReported ==
    last.op = "ResolveLookupError"
        => /\ ~last.ok
           /\ last.step \notin {"legacy-config", "fuzzy-rule", "default"}

\* C15: a Resolve of a key without active exact rule takes the legacy-config
\* step exactly when the configuration has an entry of that source and code;
\* it then answers the entry's target, whatever the target is, and creates or
\* updates no discovery record; an entry that matches only the display name
\* does not make a legacy hit.
C15_LegacyStepExactlyOnEntry ==
    [][\A q \in Requests :
          (/\ last'.op = "Resolve"
           /\ Resolve(q[1], q[2], q[3])
           /\ ActiveRules(rules, q[1], q[2]) = {})
          => IF LegacyEntries(config, q[1], q[2]) # {}
             THEN /\ last'.step = "legacy-config"
                  /\ \E i \in LegacyEntries(config, q[1], q[2]) :
                        LET e == config.source_mappings[q[1]][i]
                        IN  /\ last'.res.standard_id = e.standard_id
                            /\ last'.res.standard_sub_id = e.standard_sub_id
                  /\ unmapped' = unmapped
             ELSE last'.step # "legacy-config"]_vars

\* C16: the status of a discovery record changes only from pending to mapped,
\* by a Promote, or from pending to ignored; a record that is mapped or ignored
\* keeps its status and its applied target through every Resolve, Promote and
\* BatchPromote.
C16_MappedIsTerminal ==
    [][\A u \in unmapped : \A v \in unmapped' :
          u.id = v.id
          => /\ u.status # v.status
                  => /\ u.status = "pending"
                     /\ v.status \in {"mapped", "ignored"}
                     /\ v.status = "mapped" => last'.op \in Promotes
             /\ u.status # "pending"
                  => /\ v.mapped_id = u.mapped_id
                     /\ v.mapped_sub_id = u.mapped_sub_id]_vars

\* the ids of the rules
RuleIds(R) == {r.id : r \in R}

\* the step switched the rules of ids off, with or without a refresh of their
\* update timestamp, and left every other rule alone
OnlyDeactivated(ids, refreshed) ==
    /\ \A r \in rules :
          r.id \in ids
          => [r EXCEPT !.is_active = FALSE,
                       !.updated_at = IF refreshed THEN now' ELSE @] \in rules'
    /\ \A r \in rules : r.id \notin ids => r \in rules'
    /\ Cardinality(rules') = Cardinality(rules)

\* what the deactivations of a step, single or batch, do to the rules
Deactivations(refreshed) ==
    /\ \A id \in IdsOf(rules) :
          DeleteMappingRule(id) => OnlyDeactivated({id}, refreshed)
    /\ \A ids \in BatchIds(rules) :
          BatchDeleteMappingRules(ids) => OnlyDeactivated(ids, refreshed)

SuggestionOf(cat) == <<cat.suggested_id, cat.suggested_sub_id, cat.confidence>>

\* the unmapped categories of the response in flight to client p
SuggestedTo(p) ==
    IF calls[p].pc = "discovered"
    THEN {cat \in calls[p].categories : ~cat.mapped}
    ELSE {}

ConfidenceRank(confidence) ==
    CASE confidence = "low" -> 1
      [] confidence = "medium" -> 2
      [] confidence = "high" -> 3

\* the entries of the listing with this code whose suggestion reaches the level
Confident(classes, typeID, level) ==
    {i \in 1..Len(classes) :
        /\ classes[i].type_id = typeID
        /\ ConfidenceRank(suggestMapping(classes[i].type_name).confidence)
             >= ConfidenceRank(level)}

\* what an auto-apply run over the listing with this threshold does to the rules
AutoApplied(sourceKey, classes, level) ==
    LET codes == {classes[i].type_id : i \in 1..Len(classes)}
        created == rules' \ rules
    IN  /\ rules \subseteq rules'
        /\ \A r \in created : r.source_key = sourceKey /\ r.source_type_id \in codes
        /\ \A c \in codes :
              LET new == {r \in created : r.source_type_id = c}
                  conf == Confident(classes, c, level)
              IN  IF ~FindRule(rules, sourceKey, c).found /\ conf # {}
                  THEN \E r \in new :
                          LET s == suggestMapping(classes[FirstIndex(conf)].type_name)
                          IN  /\ new = {r}
                              /\ r.standard_id = s.standard_id
                              /\ r.standard_sub_id = s.standard_sub_id
                              /\ r.is_active
                              /\ r.id \notin RuleIds(rules)
                  ELSE new = {}

\* C19: an auto-apply run with confidence threshold t over a listing creates an
\* exact rule for a listed code exactly when the key has no rule yet, active or
\* not, and the suggestion for the code's name has a confidence of at least t
\* in the order low < medium < high (no threshold: medium); the created rule is
\* active and targets the suggestion, and no rule that existed is modified.
C19_AutoApplyThreshold ==
    [][(/\ last'.op = "AutoApplySuggestedMappings"
        /\ last'.confidence_threshold \in {"low", "medium", "high"})
       => AutoApplied(last'.source_key, last'.classes,
                      last'.confidence_threshold)]_vars

\* a run has created a rule from one entry of the listing and has left out an
\* entry whose confidence is below the threshold, next to a deactivated rule
C19_Witness ==
    /\ last.op = "AutoApplySuggestedMappings"
    /\ last.created_count >= 1
    /\ last.low_confidence_count >= 1
    /\ \E r \in rules : r.created_at = now /\ r.standard_id # DefaultStandardID
    /\ \E r \in rules : ~r.is_active

\* C20: whenever Resolve has answered from the exact-rule, legacy-config or
\* fuzzy step, a returned name that is not empty is the name the loaded taxonomy
\* has for the returned id: the standard name is empty when the standard id is
\* not in the taxonomy, and the sub name is empty when the sub id is not under
\* that standard category.
C20_NoNameForUnknownId ==
    (last.op = "Resolve" /\ last.step \in {"exact-rule", "legacy-config", "fuzzy-rule"})
    => LET tax == config.standard_categories
           id == Itoa(last.res.standard_id)
           sub == Itoa(last.res.standard_sub_id)
       IN  /\ last.res.standard_name # ""
                => id \in DOMAIN tax /\ last.res.standard_name = tax[id].name
           /\ last.res.standard_sub_name # ""
                => /\ id \in DOMAIN tax
                   /\ last.res.standard_sub_id # Nil
                   /\ sub \in DOMAIN tax[id].subcategories
                   /\ last.res.standard_sub_name = tax[id].subcategories[sub]

\* C21: no Resolve call is ever answered by an engine whose configuration
\* failed to load at start-up: whenever Resolve has answered, the engine holds
\* a loaded configuration.
C21_FailedLoadNeverServes ==
    last.op = "Resolve" => config.loaded

\* the rule store without its timestamps
WithoutTimes(R) == {[r EXCEPT !.created_at = 0, !.updated_at = 0] : r \in R}

\* the discovery records without their last-seen time
WithoutLastSeen(U) == {[u EXCEPT !.last_seen_at = 0] : u \in U}

\* the lists of S, no longer than MaxBatch, that begin with the list done
Continuations(S, done) ==
    {l \in UNION {ListsOfLen(S, n) : n \in Len(done)..MaxBatch} :
        SubSeq(l, 1, Len(done)) = done}

\* a batch promotion of the list, run after the step that ran its beginning,
\* succeeds on every item whose record exists and ends in the state one run of
\* the whole list would have ended in
PromoteRerunSafe(items) ==
    LET again == ApplyItems(rules', unmapped', items, now' + 1)
        once == ApplyItems(rules, unmapped, items, now' + 1)
        valid == {i \in 1..Len(items) : FindById(unmapped, items[i].unmapped_id).found}
    IN  /\ again.success_count = Cardinality(valid)
        /\ again.fail_count = Len(items) - Cardinality(valid)
        /\ WithoutTimes(again.rules) = WithoutTimes(once.rules)
        /\ WithoutLastSeen(again.unmapped) = WithoutLastSeen(once.unmapped)

\* the same for a batch mapping, whose items are all valid
MapRerunSafe(sourceKey, mappings) ==
    LET again == MapItems(rules', sourceKey, mappings, now' + 1)
        once == MapItems(rules, sourceKey, mappings, now' + 1)
    IN  /\ again.success_count = Len(mappings)
        /\ again.fail_count = 0
        /\ WithoutTimes(again.rules) = WithoutTimes(once.rules)

\* C22 for batch mappings alone
BatchMapRestartSafe ==
    [][last'.op = "BatchQuickMap"
       => \A mappings \in Continuations(Mappings, last'.items) :
             MapRerunSafe(last'.source_key, mappings)]_vars

\* C22: batch operations are restart-safe. After a batch promotion or a batch
\* mapping has run a list, or the beginning of a list, running the whole list
\* again reports success for every valid item, and the rules and the discovery
\* records end as one complete run of the list would have left them (the
\* timestamps of the runs aside).
C22_BatchRestartSafe ==
    [][/\ last'.op = "BatchApplyUnmappedCategories"
            => \A items \in Continuations(Items(unmapped), last'.items) :
                  PromoteRerunSafe(items)
       /\ last'.op = "BatchQuickMap"
            => \A mappings \in Continuations(Mappings, last'.items) :
                  MapRerunSafe(last'.source_key, mappings)]_vars

\* the saved videos of the pass that have this key
SavedOf(items, sourceKey, sourceTypeID) ==
    {i \in 1..Len(items) :
        items[i].source_key = sourceKey /\ items[i].type_id = sourceTypeID}

\* the step observed the key n times: its record was created and counted, or its
\* count grew by n
ObservedTimes(sourceKey, sourceTypeID, n) ==
    LET old == RecordsOf(unmapped, sourceKey, sourceTypeID)
        new == RecordsOf(unmapped', sourceKey, sourceTypeID)
    IN  /\ Cardinality(new) = 1
        /\ \A u \in new :
              IF old = {} THEN u.video_count = n
              ELSE \A o \in old : u.id = o.id /\ u.video_count = o.video_count + n

\* C23: the classification an ingestion pass stores for a record is the one
\* Resolve returns for the record's source, code and display name in the same
\* state, and every ingested record whose key has neither an active exact rule
\* nor a legacy entry causes one Observe on the discovery record of its key.
C23_IngestionResolves ==
    [][last'.op = "ImportVideoFromJSON"
       => \A i \in 1..Len(last'.items) :
             LET v == last'.items[i]
             IN  /\ \E fuzzyRule \in FuzzyFound(fuzzy) :
                       v.res = MapCategoryEnhanced(rules, config, v.source_key, v.type_id,
                                                   v.type_name, fuzzyRule).res
                 /\ (/\ ActiveRules(rules, v.source_key, v.type_id) = {}
                     /\ LegacyEntries(config, v.source_key, v.type_id) = {})
                    => ObservedTimes(v.source_key, v.type_id,
                          Cardinality(SavedOf(last'.items, v.source_key, v.type_id)))]_vars

\* C24: every Resolve that ends at the fuzzy step performs exactly one Observe
\* that carries the target of the fuzzy rule as the suggestion, and every
\* Resolve that ends at the default step performs exactly one Observe that
\* carries no suggestion and returns the uncategorized classification:
\* standard id 99 and no sub id.
C24_FallThroughObservesOnce ==
    [][last'.op = "Resolve"
       => LET old == RecordsOf(unmapped, last'.source_key, last'.source_type_id)
              new == RecordsOf(unmapped', last'.source_key, last'.source_type_id)
          IN  /\ last'.step = "fuzzy-rule"
                   => /\ ObservedTimes(last'.source_key, last'.source_type_id, 1)
                      /\ \E f \in fuzzy :
                            /\ f.is_active
                            /\ last'.res.standard_id = f.standard_id
                            /\ last'.res.standard_sub_id = f.standard_sub_id
                      /\ \A u \in new :
                            /\ u.suggested_id = last'.res.standard_id
                            /\ u.suggested_sub_id = last'.res.standard_sub_id
              /\ last'.step = "default"
                   => /\ ObservedTimes(last'.source_key, last'.source_type_id, 1)
                      /\ \A u \in new :
                            IF old = {}
                            THEN u.suggested_id = Nil /\ u.suggested_sub_id = Nil
                            ELSE \A o \in old :
                                    /\ u.suggested_id = o.suggested_id
                                    /\ u.suggested_sub_id = o.suggested_sub_id
                      /\ last'.res.standard_id = DefaultStandardID
                      /\ last'.res.standard_sub_id = Nil]_vars

\* C25: on a pending discovery record, an Observe with a suggestion replaces
\* the suggested standard id and sub id by the ones supplied, also when the
\* supplied sub id is absent and a sub id was stored, and an Observe without a
\* suggestion leaves both suggestion fields as they are.
C25_LatestSuggestionWins ==
    [][(last'.op = "Resolve" /\ last'.step \in {"fuzzy-rule", "default"})
       => \A o \in RecordsOf(unmapped, last'.source_key, last'.source_type_id) :
             o.status = "pending"
             => \E u \in unmapped' :
                   /\ u.id = o.id
                   /\ u.suggested_id =
                         IF last'.step = "fuzzy-rule" THEN last'.res.standard_id
                         ELSE o.suggested_id
                   /\ u.suggested_sub_id =
                         IF last'.step = "fuzzy-rule" THEN last'.res.standard_sub_id
                         ELSE o.suggested_sub_id]_vars

\* a fuzzy rule without sub id, added after the record was first seen, has
\* supplied the latest suggestion of a pending record that was counted before
C25_Witness ==
    /\ last.op = "Resolve"
    /\ last.step = "fuzzy-rule"
    /\ last.res.standard_sub_id = Nil
    /\ \E u \in RecordsOf(unmapped, last.source_key, last.source_type_id) :
          /\ u.status = "pending"
          /\ u.video_count >= 2
          /\ u.last_seen_at = now
          /\ u.suggested_id = last.res.standard_id
          /\ u.suggested_sub_id = Nil

\* the entries of the keyword table with a keyword contained in the name
KeywordEntries(name) ==
    {k \in 1..Len(mediumConfidenceRules) :
        \E j \in 1..Len(mediumConfidenceRules[k].keywords) :
            Contains(name, mediumConfidenceRules[k].keywords[j])}

\* the suggestion <<standard id, sub id, confidence>> is the one of the tiers in
\* order: the entry of the exact-name table that exactName equals, otherwise the
\* first entry of the keyword table with a keyword contained in keywordName,
\* otherwise the uncategorized bucket
Tiered(exactName, keywordName, s) ==
    IF exactName \in DOMAIN highConfidenceRules
    THEN s = <<highConfidenceRules[exactName].standard_id,
               highConfidenceRules[exactName].standard_sub_id, "high">>
    ELSE IF KeywordEntries(keywordName) # {}
    THEN \E k \in KeywordEntries(keywordName) :
            /\ \A j \in KeywordEntries(keywordName) : k <= j
            /\ s = <<mediumConfidenceRules[k].suggestion.standard_id,
                     mediumConfidenceRules[k].suggestion.standard_sub_id, "medium">>
    ELSE s = <<DefaultStandardID, Nil, "low">>

\* C26 as stated: the suggestion for a display name follows the tiers in order,
\* with the display name as the feed spells it compared to the exact-name table
\* and searched for the keywords.
C26_TiersOnNameAsGiven ==
    \A p \in Procs : \A c \in SuggestedTo(p) :
        Tiered(c.type_name, c.type_name, SuggestionOf(c))

\* C26: the suggestion for a display name follows the tiers in order, with the
\* display name stripped of surrounding white space compared to the exact-name
\* table, and the stripped name in lower case searched for the keywords: an
\* exact entry yields its target with confidence high even if the name holds a
\* keyword, otherwise the first keyword entry in table order with a keyword in
\* the name yields its target with confidence medium, otherwise the result is
\* standard id 99 without sub id with confidence low.
C26_TiersInOrder ==
    \A p \in Procs : \A c \in SuggestedTo(p) :
        Tiered(TrimSpace(c.type_name), ToLower(TrimSpace(c.type_name)), SuggestionOf(c))

\* a response suggests for an exact entry that holds keywords, for a name with
\* keywords of two entries, for an exact entry between spaces and for a keyword
\* in upper case; another response suggests the uncategorized bucket
C26_Witness ==
    /\ \E c \in SuggestedTo(1) :
          /\ c.type_name \in DOMAIN highConfidenceRules
          /\ KeywordEntries(c.type_name) # {}
          /\ c.confidence = "high"
    /\ \E c \in SuggestedTo(1) :
          /\ Cardinality(KeywordEntries(c.type_name)) >= 2
          /\ c.confidence = "medium"
    /\ \E c \in SuggestedTo(1) :
          /\ c.type_name # TrimSpace(c.type_name)
          /\ c.confidence = "high"
    /\ \E c \in SuggestedTo(1) :
          /\ KeywordEntries(c.type_name) = {}
          /\ c.confidence = "medium"
    /\ \E c \in SuggestedTo(2) : c.type_name # <<>> /\ c.confidence = "low"

\* the configurations LoadConfig can publish
Snapshots == {file.decoded : file \in {f \in ConfigFiles : f.kind = "ok"}}

\* what the read that client p has returned from saw is part of snapshot s
SeenIn(p, s) ==
    \/ /\ calls[p].pc = "MapCategory:returned"
       /\ calls[p].seen.loaded
       /\ calls[p].seen.source_mappings = s.source_mappings
       /\ calls[p].named => calls[p].seen.standard_categories = s.standard_categories
       /\ calls[p].res = MapCategory(s, calls[p].args.source_key,
                                     calls[p].args.source_type_id,
                                     calls[p].args.source_type_name)
    \/ /\ calls[p].pc = "getStandardCategoryNames:returned"
       /\ calls[p].names = getStandardCategoryNames(s, calls[p].standard_id,
                                                    calls[p].standard_sub_id)

\* C27: under any interleaving of reloads with reads of the configuration, the
\* published configuration is always a completely decoded file, every read of
\* legacy mappings and names that has returned saw the parts of one of them,
\* and a step of a reload that returns an error leaves the published
\* configuration as it was.
C27_ReadersSeeOneSnapshot ==
    /\ [](/\ config \in Snapshots
          /\ \A p \in Procs :
                calls[p].pc \in {"MapCategory:returned", "getStandardCategoryNames:returned"}
                    => \E s \in Snapshots : SeenIn(p, s))
    /\ [][\A p \in Procs :
            (calls'[p].pc = "LoadConfig:returned" /\ calls[p].pc # "LoadConfig:returned"
                /\ ~calls'[p].ok) => config' = config]_vars

\* client 1 has read the mappings and names of the edited file, which a reload
\* published after start-up, and the reload of client 2 has failed at decoding
C27_Witness ==
    /\ calls[1].pc = "MapCategory:returned"
    /\ calls[1].named
    /\ SeenIn(1, CategoryMappingConfigEdited)
    /\ ~SeenIn(1, CategoryMappingConfig)
    /\ calls[2].pc = "LoadConfig:returned"
    /\ ~calls[2].ok
    /\ calls[2].local # ZeroConfig
    /\ config = CategoryMappingConfigEdited

\* the discovery records a review with this source filter is to return
PendingOf(sourceKey) ==
    {u \in unmapped : u.status = "pending" /\ (sourceKey = "" \/ u.source_key = sourceKey)}

\* C28: a review returns exactly the discovery records whose status is pending,
\* of the source of the filter when one is given, each once, ordered by video
\* count descending and among equal counts by last-seen descending; each
\* carries the text made of its suggested standard id and sub id, or the text
\* for manual assignment when it has no suggested standard id.
C28_ReviewListsPending ==
    last.op = "ReviewUnmappedCategories" =>
        /\ {last.items[i].category : i \in DOMAIN last.items} = PendingOf(last.source_key)
        /\ Len(last.items) = Cardinality(PendingOf(last.source_key))
        /\ \A i, j \in DOMAIN last.items :
              i < j =>
                LET a == last.items[i].category
                    b == last.items[j].category
                IN  \/ a.video_count > b.video_count
                    \/ a.video_count = b.video_count /\ a.last_seen_at >= b.last_seen_at
        /\ \A i \in DOMAIN last.items :
              LET c == last.items[i].category
                  text == last.items[i].suggested_mapping
              IN  /\ c.suggested_id = Nil <=> text = ManualMapping
                  /\ c.suggested_id # Nil /\ c.suggested_sub_id = Nil =>
                        text = SuggestedMappingPrefix \o Itoa(c.suggested_id)
                  /\ c.suggested_id # Nil /\ c.suggested_sub_id # Nil =>
                        text = SuggestedMappingPrefix \o Itoa(c.suggested_id)
                                  \o <<"-">> \o Itoa(c.suggested_sub_id)

\* a review without source filter returns two pending records of equal count,
\* the one seen last first, one with a suggestion and one without
C28_Witness ==
    /\ last.op = "ReviewUnmappedCategories"
    /\ last.source_key = ""
    /\ Len(last.items) = 2
    /\ last.items[1].category.video_count = last.items[2].category.video_count
    /\ last.items[1].category.last_seen_at > last.items[2].category.last_seen_at
    /\ \E i \in 1..2 : last.items[i].suggested_mapping = ManualMapping
    /\ \E i \in 1..2 : last.items[i].category.suggested_id # Nil

\* the Resolve calls that have returned after observing this key
ObservedBy(sourceKey, sourceTypeID) ==
    {p \in Procs : /\ calls[p].pc = "Resolve:returned"
                   /\ calls[p].observe
                   /\ calls[p].source_key = sourceKey
                   /\ calls[p].source_type_id = sourceTypeID}

\* C29: when the concurrent Resolve calls on a key that had no discovery record
\* have all returned, exactly one discovery record exists for the key and its
\* count is the number of the calls.
C29_OneRecordCountsAll ==
    \A k \in Keys :
        (/\ ObservedBy(k[1], k[2]) # {}
         /\ \A p \in Procs :
               calls[p].pc = "Resolve:first" =>
                   <<calls[p].source_key, calls[p].source_type_id>> # k)
        => \E u \in unmapped :
              /\ u.source_key = k[1] /\ u.source_type_id = k[2]
              /\ u.video_count = Cardinality(ObservedBy(k[1], k[2]))
              /\ \A v \in unmapped :
                    v.source_key = k[1] /\ v.source_type_id = k[2] => v = u

\* C30: a promotion that names the id of no discovery record returns an error
\* and changes nothing: the rules and the discovery records stay as they were.
C30_PromoteUnknownIdChangesNothing ==
    [][\A id \in IdsOf(unmapped), t \in Targets :
          (/\ \A u \in unmapped : u.id # id
           /\ \/ ApplyUnmappedCategoryMapping(id, t[1], t[2], "none")
              \/ ApplyCategoryMapping(id, t[1], t[2], "none"))
          => /\ ~last'.ok
             /\ rules' = rules
             /\ unmapped' = unmapped]_vars

\* a promotion has returned an error while the table of discovery records is
\* empty, so that the id it named is the id of no record, and rules exist
C30_Witness ==
    /\ last.op \in {"ApplyUnmappedCategoryMapping", "ApplyCategoryMapping"}
    /\ ~last.ok
    /\ unmapped = {}
    /\ rules # {}

====
